---- MODULE Spec2Model ----
(***************************************************************************)
(* The telnet protocol engine of MMapper (src/proxy/AbstractTelnet.cpp):   *)
(* the byte state machine of onReadInternal2, the option negotiator of     *)
(* processTelnetCommand, the subnegotiation handlers, the outbound framer  *)
(* and the MCCPv2 inflate mode, as functions on a record of the engine's   *)
(* fields, and the state machine that applies them.                        *)
(***************************************************************************)
EXTENDS Integers, Sequences, FiniteSets, TLC

(***************************************************************************)
(* Wire values (AbstractTelnet.h; RFC 854/855/1073/1091/2066, MCCPv2,      *)
(* GMCP).                                                                  *)
(***************************************************************************)
TN_SE == 240
TN_NOP == 241
TN_AYT == 246
TN_GA == 249
TN_SB == 250
TN_WILL == 251
TN_WONT == 252
TN_DO == 253
TN_DONT == 254
TN_IAC == 255

OPT_ECHO == 1
OPT_SUPPRESS_GA == 3
OPT_STATUS == 5
OPT_TIMING_MARK == 6
OPT_TERMINAL_TYPE == 24
OPT_NAWS == 31
OPT_CHARSET == 42
OPT_COMPRESS2 == 86
OPT_GMCP == 201

TNSB_IS == 0
TNSB_SEND == 1
TNSB_REQUEST == 1
TNSB_ACCEPTED == 2
TNSB_REJECTED == 3
TNSB_TTABLE_IS == 4

NUM_OPTS == 256
DEFAULT_GMCP_MODULE_VERSION == 0

(***************************************************************************)
(* Sequence helpers.                                                       *)
(***************************************************************************)
RECURSIVE Flatten(_)
Flatten(ss) ==
    IF ss = <<>> THEN <<>> ELSE Head(ss) \o Flatten(Tail(ss))

\* QByteArray::mid(pos): the bytes from index pos (0-based) to the end.
Mid(s, pos) ==
    IF pos >= Len(s) THEN <<>> ELSE SubSeq(s, pos + 1, Len(s))

RECURSIVE SplitAcc(_, _, _)
SplitAcc(s, sep, cur) ==
    IF s = <<>> THEN <<cur>>
    ELSE IF Head(s) = sep THEN <<cur>> \o SplitAcc(Tail(s), sep, <<>>)
    ELSE SplitAcc(Tail(s), sep, Append(cur, Head(s)))

\* QByteArray::split(sep): the fields between the separators, empty ones kept.
Split(s, sep) ==
    SplitAcc(s, sep, <<>>)

RECURSIVE Ascending(_)
\* The members of a set of numbers in increasing order.
Ascending(S) ==
    IF S = {} THEN <<>>
    ELSE LET m == CHOOSE x \in S : \A y \in S : x <= y
         IN <<m>> \o Ascending(S \ {m})

(***************************************************************************)
(* TelnetFormatter: the byte buffer the outbound framer builds.            *)
(***************************************************************************)
addRaw(s, byte) ==
    Append(s, byte)

\* addEscaped without the second IAC
addEscaped_NotDoubled(s, byte) ==
    addRaw(s, byte)

addEscaped(s, byte) ==
    IF byte = TN_IAC THEN addRaw(addRaw(s, byte), byte) ELSE addRaw(s, byte)

addTwoByteEscaped(s, n) ==
    addEscaped(addEscaped(s, (n \div 256) % 256), n % 256)

addClampedTwoByteEscaped_Wraps(s, n) ==
    addTwoByteEscaped(s, n % 65536)

addClampedTwoByteEscaped(s, n) ==
    LET lo == 0
        hi == 65535
        clamped == IF n < lo THEN lo ELSE IF n > hi THEN hi ELSE n
    IN addTwoByteEscaped(s, clamped)

RECURSIVE addEscapedBytes(_, _)
addEscapedBytes(s, bytes) ==
    IF bytes = <<>> THEN s
    ELSE addEscapedBytes(addEscaped(s, Head(bytes)), Tail(bytes))

addCommand(s, cmd) ==
    addRaw(addRaw(s, TN_IAC), cmd)

addSubnegBegin(s, opt) ==
    addRaw(addCommand(s, TN_SB), opt)

addSubnegEnd(s) ==
    addCommand(s, TN_SE)

containsIAC(arr) ==
    \E i \in 1..Len(arr) : arr[i] = TN_IAC

(***************************************************************************)
(* The engine: one record holds AbstractTelnet's fields, the clean-bytes   *)
(* buffer of the running onReadInternal call, and what the last step did   *)
(* to the outside: sent (sendRawData writes), hooks (host hook calls),     *)
(* dispatched (units handed to the negotiator and to the subnegotiation    *)
(* dispatcher), aborted (abort() or a failed assertion ended the process)  *)
(* and thrown (a std::runtime_error left the call).                        *)
(***************************************************************************)

\* sendRawData is pure virtual here; the subclasses write the bytes to the
\* socket and add their number to sentBytes.
sendRawData(e, data) ==
    [e EXCEPT !.sent = Append(@, data), !.sentBytes = @ + Len(data)]

callHook(e, call) ==
    [e EXCEPT !.hooks = Append(@, call)]

sendToMapper(e, data, goAhead) ==
    callHook(e, <<"sendToMapper", data, goAhead>>)

receiveEchoMode(e, mode) ==
    callHook(e, <<"receiveEchoMode", mode>>)

receiveTerminalType(e, data) ==
    callHook(e, <<"receiveTerminalType", data>>)

receiveWindowSize(e, x, y) ==
    callHook(e, <<"receiveWindowSize", x, y>>)

receiveGmcpMessage(e, data) ==
    callHook(e, <<"receiveGmcpMessage", data>>)

onGmcpEnabled(e) ==
    callHook(e, <<"onGmcpEnabled">>)

abort(e) ==
    [e EXCEPT !.aborted = TRUE]

\* TextCodec (TextCodec.h): the charsets the codec knows, by their names.
Utf8Name == <<85, 84, 70, 45, 56>>
Latin1Name == <<76, 49>>
supportedEncodings ==
    <<Utf8Name, Latin1Name>>

supports(characterSet) ==
    \E i \in 1..Len(supportedEncodings) : supportedEncodings[i] = characterSet

setEncodingForName(e, characterSet) ==
    IF supports(characterSet) THEN [e EXCEPT !.textCodec = characterSet] ELSE e

\* a resetCompress that leaves a pending compression start pending
resetCompress_KeepsPending(e) ==
    [e EXCEPT !.inflateTelnet = FALSE,
              !.hisOptionState = @ \ {OPT_COMPRESS2}]

resetCompress(e) ==
    [e EXCEPT !.inflateTelnet = FALSE,
              !.recvdCompress = FALSE,
              !.hisOptionState = @ \ {OPT_COMPRESS2}]

\* inflateInit is taken to succeed.
initCompress(e) ==
    IF e.NO_ZLIB THEN abort(e) ELSE [e EXCEPT !.inflateTelnet = TRUE]

resetGmcpModules(e) ==
    [e EXCEPT !.gmcp = [supported |-> [t \in DOMAIN e.gmcp.supported |->
                                          DEFAULT_GMCP_MODULE_VERSION],
                        modules |-> {}]]

reset(e) ==
    LET e1 == [e EXCEPT !.myOptionState = {},
                        !.hisOptionState = {},
                        !.announcedState = {},
                        !.heAnnouncedState = {},
                        !.termType = e.m_defaultTermType,
                        !.state = "NORMAL",
                        !.commandBuffer = <<>>]
        e2 == resetGmcpModules(e1)
        e3 == [e2 EXCEPT !.subnegBuffer = <<>>,
                         !.sentBytes = 0,
                         !.recvdGA = FALSE]
    IN resetCompress(e3)

\* a registration that does not ask for a version
receiveGmcpModule_Unversioned(e, module, enabled) ==
    IF enabled
    THEN LET e1 == [e EXCEPT !.gmcp.modules = @ \cup {module}]
         IN IF module.supported
            THEN [e1 EXCEPT !.gmcp.supported[module.type] = module.version]
            ELSE e1
    ELSE LET e1 == [e EXCEPT !.gmcp.modules = @ \ {module}]
         IN IF module.supported
            THEN [e1 EXCEPT !.gmcp.supported[module.type] =
                                DEFAULT_GMCP_MODULE_VERSION]
            ELSE e1

\* module: [type, version (0: none), supported]
receiveGmcpModule(e, module, enabled) ==
    IF enabled
    THEN IF module.version = 0
         THEN [e EXCEPT !.thrown = TRUE]
         ELSE LET e1 == [e EXCEPT !.gmcp.modules = @ \cup {module}]
              IN IF module.supported
                 THEN [e1 EXCEPT !.gmcp.supported[module.type] = module.version]
                 ELSE e1
    ELSE LET e1 == [e EXCEPT !.gmcp.modules = @ \ {module}]
         IN IF module.supported
            THEN [e1 EXCEPT !.gmcp.supported[module.type] =
                                DEFAULT_GMCP_MODULE_VERSION]
            ELSE e1

\* a submit that appends the go-ahead whatever the peer negotiated
submitOverTelnet_AlwaysGA(e, data, goAhead) ==
    LET outdata == IF containsIAC(data) THEN addEscapedBytes(<<>>, data) ELSE data
        withGA == IF goAhead
                  THEN outdata \o <<TN_IAC, TN_GA>>
                  ELSE outdata
    IN sendRawData(e, withGA)

submitOverTelnet(e, data, goAhead) ==
    LET outdata == IF containsIAC(data) THEN addEscapedBytes(<<>>, data) ELSE data
        withGA == IF goAhead /\ OPT_SUPPRESS_GA \notin e.hisOptionState
                  THEN outdata \o <<TN_IAC, TN_GA>>
                  ELSE outdata
    IN sendRawData(e, withGA)

sendWindowSizeChanged(e, x, y) ==
    LET s1 == addSubnegBegin(<<>>, OPT_NAWS)
        s2 == addClampedTwoByteEscaped(s1, x)
        s3 == addClampedTwoByteEscaped(s2, y)
    IN sendRawData(e, addSubnegEnd(s3))

sendTelnetOption(e, type, option) ==
    sendRawData(e, <<TN_IAC, type, option>>)

requestTelnetOption(e, type, option) ==
    sendTelnetOption([e EXCEPT !.myOptionState = @ \cup {option},
                               !.announcedState = @ \cup {option}],
                     type, option)

RECURSIVE addCharsets(_, _)
addCharsets(s, names) ==
    IF names = <<>> THEN s
    ELSE addCharsets(addEscapedBytes(addEscapedBytes(s, <<59>>), Head(names)),
                     Tail(names))

sendCharsetRequest(e, myCharacterSets) ==
    LET s1 == addRaw(addSubnegBegin(<<>>, OPT_CHARSET), TNSB_REQUEST)
    IN sendRawData(e, addSubnegEnd(addCharsets(s1, myCharacterSets)))

isGmcpModuleEnabled(e, name) ==
    IF OPT_GMCP \notin e.myOptionState THEN FALSE
    ELSE e.gmcp.supported[name] # DEFAULT_GMCP_MODULE_VERSION

sendGmcpMessage(e, payload) ==
    sendRawData(e, addSubnegEnd(addEscapedBytes(addSubnegBegin(<<>>, OPT_GMCP),
                                                payload)))

sendTerminalType(e, terminalType) ==
    LET s1 == addEscaped(addSubnegBegin(<<>>, OPT_TERMINAL_TYPE), TNSB_IS)
    IN sendRawData(e, addSubnegEnd(addEscapedBytes(s1, terminalType)))

sendCharsetRejected(e) ==
    sendRawData(e, addSubnegEnd(addRaw(addSubnegBegin(<<>>, OPT_CHARSET),
                                       TNSB_REJECTED)))

sendCharsetAccepted(e, characterSet) ==
    LET s1 == addRaw(addSubnegBegin(<<>>, OPT_CHARSET), TNSB_ACCEPTED)
    IN sendRawData(e, addSubnegEnd(addEscapedBytes(s1, characterSet)))

RECURSIVE optionStatusBytes(_, _, _)
\* The loop of sendOptionStatus over i, here over the options set in either table.
optionStatusBytes(e, s, opts) ==
    IF opts = <<>> THEN s
    ELSE LET i == Head(opts)
             s1 == IF i \in e.myOptionState THEN s \o <<TN_WILL, i>> ELSE s
             s2 == IF i \in e.hisOptionState THEN s1 \o <<TN_DO, i>> ELSE s1
         IN optionStatusBytes(e, s2, Tail(opts))

sendOptionStatus(e) ==
    LET s == <<TN_IAC, TN_SB, OPT_STATUS, TNSB_IS>>
        opts == Ascending({i \in e.myOptionState \cup e.hisOptionState :
                              i < NUM_OPTS})
    IN sendRawData(e, optionStatusBytes(e, s, opts) \o <<TN_IAC, TN_SE>>)

AreYouThereReply ==
    <<73, 39, 109, 32, 104, 101, 114, 101, 33, 32, 80, 108, 101, 97, 115, 101,
      32, 98, 101, 32, 109, 111, 114, 101, 32, 112, 97, 116, 105, 101, 110,
      116, 33, 13, 10>>

sendAreYouThere(e) ==
    sendRawData(e, AreYouThereReply)

sendTerminalTypeRequest(e) ==
    sendRawData(e, addSubnegEnd(addEscaped(addSubnegBegin(<<>>, OPT_TERMINAL_TYPE),
                                           TNSB_SEND)))

(***************************************************************************)
(* processTelnetCommand: the option negotiator.                            *)
(***************************************************************************)
dispatch(e, unit) ==
    [e EXCEPT !.dispatched = Append(@, unit)]

\* The options a WILL is answered with DO for.
\* a WILL-accept set that holds every option code
WillSupported_All(e, option) ==
    TRUE

WillSupported(e, option) ==
    \/ option = OPT_SUPPRESS_GA
    \/ option = OPT_STATUS
    \/ option = OPT_TERMINAL_TYPE
    \/ option = OPT_NAWS
    \/ option = OPT_ECHO
    \/ option = OPT_CHARSET
    \/ (option = OPT_COMPRESS2 /\ ~e.NO_ZLIB)
    \/ option = OPT_GMCP

\* a DO-accept set that offers COMPRESS2 as well
DoSupported_WithCompress(option) ==
    \/ option = OPT_SUPPRESS_GA
    \/ option = OPT_STATUS
    \/ option = OPT_TERMINAL_TYPE
    \/ option = OPT_NAWS
    \/ option = OPT_ECHO
    \/ option = OPT_CHARSET
    \/ option = OPT_GMCP
    \/ option = OPT_COMPRESS2

\* The options a DO is answered with WILL for.
DoSupported(option) ==
    \/ option = OPT_SUPPRESS_GA
    \/ option = OPT_STATUS
    \/ option = OPT_TERMINAL_TYPE
    \/ option = OPT_NAWS
    \/ option = OPT_ECHO
    \/ option = OPT_CHARSET
    \/ option = OPT_GMCP

\* case TN_WILL, his option not yet enabled and mine disabled
\* a WILL accepted without the DO that says so
acceptWill_Unanswered(e, option) ==
    IF WillSupported(e, option)
    THEN LET e2 == [e EXCEPT !.hisOptionState = @ \cup {option}]
         IN IF option = OPT_ECHO THEN receiveEchoMode(e2, FALSE) ELSE e2
    ELSE [sendTelnetOption(e, TN_DONT, option)
            EXCEPT !.hisOptionState = @ \ {option}]

acceptWill(e, option) ==
    IF WillSupported(e, option)
    THEN LET e1 == sendTelnetOption(e, TN_DO, option)
             e2 == [e1 EXCEPT !.hisOptionState = @ \cup {option}]
         IN IF option = OPT_ECHO THEN receiveEchoMode(e2, FALSE) ELSE e2
    ELSE [sendTelnetOption(e, TN_DONT, option)
            EXCEPT !.hisOptionState = @ \ {option}]

\* a WILL handler that answers every WILL with DO, agreed or not
processWill_AnswersAll(e, option) ==
    [sendTelnetOption([e EXCEPT !.heAnnouncedState = @ \cup {option}],
                      TN_DO, option)
        EXCEPT !.hisOptionState = @ \cup {option}]

processWill(e, option) ==
    LET e1 == [e EXCEPT !.heAnnouncedState = @ \cup {option}]
    IN IF option \notin e1.hisOptionState
       THEN IF option \notin e1.myOptionState
            THEN acceptWill(e1, option)
            ELSE IF option = OPT_TERMINAL_TYPE
                 THEN sendTerminalTypeRequest(e1)
                 ELSE e1
       ELSE e1

processWont(e, option) ==
    LET e1 == IF option \notin e.myOptionState
                 /\ (option \in e.hisOptionState
                     \/ option \notin e.heAnnouncedState)
              THEN LET d == [sendTelnetOption(e, TN_DONT, option)
                               EXCEPT !.hisOptionState = @ \ {option}]
                   IN IF option = OPT_ECHO THEN receiveEchoMode(d, TRUE) ELSE d
              ELSE e
    IN [e1 EXCEPT !.heAnnouncedState = @ \cup {option}]

\* a DO handler that refuses an option without recording the WONT it wrote
replyDo_Unrecorded(e, option) ==
    IF option = OPT_TIMING_MARK
    THEN sendTelnetOption(e, TN_WILL, option)
    ELSE IF option \notin e.myOptionState
         THEN IF DoSupported(option)
              THEN [sendTelnetOption(e, TN_WILL, option)
                      EXCEPT !.myOptionState = @ \cup {option},
                             !.announcedState = @ \cup {option}]
              ELSE sendTelnetOption(e, TN_WONT, option)
         ELSE e

\* a DO handler that has no special case for the timing mark
replyDo_NoTimingMark(e, option) ==
    IF option \notin e.myOptionState
    THEN IF DoSupported(option)
         THEN [sendTelnetOption(e, TN_WILL, option)
                 EXCEPT !.myOptionState = @ \cup {option},
                        !.announcedState = @ \cup {option}]
         ELSE [sendTelnetOption(e, TN_WONT, option)
                 EXCEPT !.myOptionState = @ \ {option},
                        !.announcedState = @ \cup {option}]
    ELSE e

\* case TN_DO, the reply and the table update (lines 458-477)
replyDo(e, option) ==
    IF option = OPT_TIMING_MARK
    THEN sendTelnetOption(e, TN_WILL, option)
    ELSE IF option \notin e.myOptionState
         THEN IF DoSupported(option)
              THEN [sendTelnetOption(e, TN_WILL, option)
                      EXCEPT !.myOptionState = @ \cup {option},
                             !.announcedState = @ \cup {option}]
              ELSE [sendTelnetOption(e, TN_WONT, option)
                      EXCEPT !.myOptionState = @ \ {option},
                             !.announcedState = @ \cup {option}]
         ELSE e

\* case TN_DO, what follows the reply (lines 478-492)
afterDo(e, option) ==
    IF OPT_NAWS \in e.myOptionState /\ option = OPT_NAWS
    THEN sendWindowSizeChanged(e, e.current[1], e.current[2])
    ELSE IF OPT_CHARSET \in e.myOptionState /\ option = OPT_CHARSET
    THEN sendCharsetRequest(e, supportedEncodings)
    ELSE IF OPT_COMPRESS2 \in e.myOptionState /\ option = OPT_COMPRESS2
            /\ ~e.NO_ZLIB
    THEN e
    ELSE IF OPT_GMCP \in e.myOptionState /\ option = OPT_GMCP
    THEN onGmcpEnabled(e)
    ELSE e

processDo(e, option) ==
    afterDo(replyDo(e, option), option)

\* a DONT that switches off every option of mine
processDont_ClearsAll(e, option) ==
    LET e1 == IF option \in e.myOptionState \/ option \notin e.announcedState
              THEN [sendTelnetOption(e, TN_WONT, option)
                      EXCEPT !.announcedState = @ \cup {option}]
              ELSE e
    IN [e1 EXCEPT !.myOptionState = {}]

processDont(e, option) ==
    LET e1 == IF option \in e.myOptionState \/ option \notin e.announcedState
              THEN [sendTelnetOption(e, TN_WONT, option)
                      EXCEPT !.announcedState = @ \cup {option}]
              ELSE e
    IN [e1 EXCEPT !.myOptionState = @ \ {option}]

\* case 2 of the length switch
processCommand2(e, ch) ==
    IF ch = TN_AYT THEN sendAreYouThere(e)
    ELSE IF ch = TN_GA THEN [e EXCEPT !.recvdGA = TRUE]
    ELSE e

processTelnetCommand(e0, command) ==
    LET e == dispatch(e0, <<"command", command>>)
    IN CASE Len(command) = 2 -> processCommand2(e, command[2])
         [] Len(command) = 3 ->
               LET ch == command[2]
                   option == command[3]
               IN CASE ch = TN_WILL -> processWill(e, option)
                    [] ch = TN_WONT -> processWont(e, option)
                    [] ch = TN_DO -> processDo(e, option)
                    [] ch = TN_DONT -> processDont(e, option)
                    [] OTHER -> e
         [] OTHER -> e

(***************************************************************************)
(* processTelnetSubnegotiation.  payload[i] with i = payload.length() is   *)
(* outside the buffer: a build with Qt's assertions aborts there, one      *)
(* without them reads the byte QByteArray keeps behind its data, 0.  u is  *)
(* what the step does not decide: u.asserts (the build checks assertions)  *)
(* and u.gmcpParses (GmcpMessage::fromRawBytes accepts the payload).       *)
(***************************************************************************)
ByteAt(payload, i) ==
    IF i < Len(payload) THEN payload[i + 1] ELSE 0

\* a STATUS handler that answers only when STATUS was negotiated
subnegStatus_Negotiated(e, payload) ==
    IF OPT_STATUS \in e.myOptionState /\ ByteAt(payload, 1) = TNSB_SEND
    THEN sendOptionStatus(e) ELSE e

subnegStatus(e, payload) ==
    IF ByteAt(payload, 1) = TNSB_SEND THEN sendOptionStatus(e) ELSE e

subnegTerminalType(e, payload) ==
    IF OPT_TERMINAL_TYPE \in e.myOptionState
    THEN CASE ByteAt(payload, 1) = TNSB_SEND -> sendTerminalType(e, e.termType)
           [] ByteAt(payload, 1) = TNSB_IS ->
                 receiveTerminalType(e, Mid(payload, 2))
           [] OTHER -> e
    ELSE e

RECURSIVE firstSupported(_)
\* The first charset of the list the codec supports, <<>> if there is none.
firstSupported(characterSets) ==
    IF characterSets = <<>> THEN <<>>
    ELSE IF supports(Head(characterSets)) THEN <<Head(characterSets)>>
    ELSE firstSupported(Tail(characterSets))

charsetRequest(e, payload) ==
    IF Len(payload) >= 4 /\ payload[3] # 91
    THEN LET sep == payload[3]
             characterSets == Split(Mid(payload, 3), sep)
             found == firstSupported(characterSets)
         IN IF found # <<>>
            THEN sendCharsetAccepted(setEncodingForName(e, found[1]), found[1])
            ELSE sendCharsetRejected(e)
    ELSE sendCharsetRejected(e)

subnegCharset(e, payload) ==
    IF OPT_CHARSET \in e.myOptionState
    THEN CASE ByteAt(payload, 1) = TNSB_REQUEST -> charsetRequest(e, payload)
           [] ByteAt(payload, 1) = TNSB_ACCEPTED ->
                 IF Len(payload) > 3
                 THEN setEncodingForName(e, Mid(payload, 2))
                 ELSE e
           [] ByteAt(payload, 1) = TNSB_REJECTED -> e
           [] ByteAt(payload, 1) = TNSB_TTABLE_IS -> abort(e)
           [] OTHER -> e
    ELSE e

subnegCompress2(e, u) ==
    IF e.NO_ZLIB /\ u.asserts THEN abort(e)
    ELSE IF OPT_COMPRESS2 \in e.hisOptionState
         THEN IF e.debug /\ e.inflateTelnet
              THEN e
              ELSE [e EXCEPT !.recvdCompress = TRUE]
         ELSE e

subnegGmcp(e, payload, u) ==
    IF OPT_GMCP \in e.myOptionState
    THEN IF Len(payload) <= 1 THEN e
         ELSE IF u.gmcpParses THEN receiveGmcpMessage(e, Mid(payload, 1))
         ELSE e
    ELSE e

subnegNaws(e, payload) ==
    IF OPT_NAWS \in e.myOptionState /\ Len(payload) = 5
    THEN LET x == (payload[2] * 256 + payload[3]) % 65536
             y == (payload[4] * 256 + payload[5]) % 65536
         IN receiveWindowSize(e, x, y)
    ELSE e

\* Whether the handler of payload's option reads payload[1].
readsSecondByte(e, option) ==
    \/ option = OPT_STATUS
    \/ option = OPT_TERMINAL_TYPE /\ OPT_TERMINAL_TYPE \in e.myOptionState
    \/ option = OPT_CHARSET /\ OPT_CHARSET \in e.myOptionState

processTelnetSubnegotiation(e0, payload, u) ==
    LET e == dispatch(e0, <<"subneg", payload>>)
        option == ByteAt(payload, 0)
    IN IF u.asserts /\ (Len(payload) = 0
                        \/ (Len(payload) = 1 /\ readsSecondByte(e, option)))
       THEN abort(e)
       ELSE CASE option = OPT_STATUS -> subnegStatus(e, payload)
              [] option = OPT_TERMINAL_TYPE -> subnegTerminalType(e, payload)
              [] option = OPT_CHARSET -> subnegCharset(e, payload)
              [] option = OPT_COMPRESS2 -> subnegCompress2(e, u)
              [] option = OPT_GMCP -> subnegGmcp(e, payload, u)
              [] option = OPT_NAWS -> subnegNaws(e, payload)
              [] OTHER -> e

(***************************************************************************)
(* onReadInternal2: the byte state machine.                                *)
(***************************************************************************)
isNegotiation(c) ==
    c = TN_WILL \/ c = TN_WONT \/ c = TN_DO \/ c = TN_DONT

stateNormal(e, c) ==
    IF c = TN_IAC
    THEN [e EXCEPT !.state = "IAC", !.commandBuffer = Append(@, c)]
    ELSE [e EXCEPT !.cleanData = Append(@, c)]

\* an IAC state in which a stray SE leaves the IAC in the command buffer
stateIAC_KeepsStraySE(e, c) ==
    IF c = TN_IAC
    THEN [e EXCEPT !.state = "NORMAL",
                   !.cleanData = Append(@, c),
                   !.commandBuffer = <<>>]
    ELSE IF isNegotiation(c)
    THEN [e EXCEPT !.state = "COMMAND", !.commandBuffer = Append(@, c)]
    ELSE IF c = TN_SB
    THEN [e EXCEPT !.state = "SUBNEG", !.commandBuffer = <<>>]
    ELSE IF c = TN_SE
    THEN [e EXCEPT !.state = "NORMAL"]
    ELSE LET e1 == [e EXCEPT !.state = "NORMAL", !.commandBuffer = Append(@, c)]
             e2 == processTelnetCommand(e1, e1.commandBuffer)
         IN [e2 EXCEPT !.commandBuffer = <<>>]

stateIAC(e, c) ==
    IF c = TN_IAC
    THEN [e EXCEPT !.state = "NORMAL",
                   !.cleanData = Append(@, c),
                   !.commandBuffer = <<>>]
    ELSE IF isNegotiation(c)
    THEN [e EXCEPT !.state = "COMMAND", !.commandBuffer = Append(@, c)]
    ELSE IF c = TN_SB
    THEN [e EXCEPT !.state = "SUBNEG", !.commandBuffer = <<>>]
    ELSE IF c = TN_SE
    THEN [e EXCEPT !.state = "NORMAL", !.commandBuffer = <<>>]
    ELSE LET e1 == [e EXCEPT !.state = "NORMAL", !.commandBuffer = Append(@, c)]
             e2 == processTelnetCommand(e1, e1.commandBuffer)
         IN [e2 EXCEPT !.commandBuffer = <<>>]

\* a COMMAND state that leaves the processed command in the buffer
stateCommand_KeepsCommand(e, c, next) ==
    LET e1 == [e EXCEPT !.state = next, !.commandBuffer = Append(@, c)]
    IN processTelnetCommand(e1, e1.commandBuffer)

stateCommand(e, c, next) ==
    LET e1 == [e EXCEPT !.state = next, !.commandBuffer = Append(@, c)]
        e2 == processTelnetCommand(e1, e1.commandBuffer)
    IN [e2 EXCEPT !.commandBuffer = <<>>]

\* a SUBNEG state that also keeps the IAC it sees in the option payload
stateSubneg_KeepsIAC(e, c) ==
    IF c = TN_IAC
    THEN [e EXCEPT !.state = "SUBNEG_IAC",
                   !.commandBuffer = Append(@, c),
                   !.subnegBuffer = Append(@, c)]
    ELSE [e EXCEPT !.subnegBuffer = Append(@, c)]

stateSubneg(e, c) ==
    IF c = TN_IAC
    THEN [e EXCEPT !.state = "SUBNEG_IAC", !.commandBuffer = Append(@, c)]
    ELSE [e EXCEPT !.subnegBuffer = Append(@, c)]

\* a SUBNEG_IAC state in which a two-byte command ends the subnegotiation
stateSubnegIAC_EndsOnCommand(e, c, u) ==
    IF c = TN_IAC
    THEN [e EXCEPT !.state = "SUBNEG",
                   !.subnegBuffer = Append(@, c),
                   !.commandBuffer = <<>>]
    ELSE IF isNegotiation(c)
    THEN [e EXCEPT !.state = "SUBNEG_COMMAND", !.commandBuffer = Append(@, c)]
    ELSE IF c = TN_SE
    THEN LET e1 == [e EXCEPT !.state = "NORMAL"]
             e2 == processTelnetSubnegotiation(e1, e1.subnegBuffer, u)
         IN [e2 EXCEPT !.commandBuffer = <<>>, !.subnegBuffer = <<>>]
    ELSE IF c = TN_SB
    THEN [e EXCEPT !.state = "NORMAL",
                   !.commandBuffer = <<>>,
                   !.subnegBuffer = <<>>]
    ELSE LET e1 == [e EXCEPT !.state = "NORMAL", !.commandBuffer = Append(@, c)]
             e2 == processTelnetCommand(e1, e1.commandBuffer)
         IN [e2 EXCEPT !.commandBuffer = <<>>]

stateSubnegIAC(e, c, u) ==
    IF c = TN_IAC
    THEN [e EXCEPT !.state = "SUBNEG",
                   !.subnegBuffer = Append(@, c),
                   !.commandBuffer = <<>>]
    ELSE IF isNegotiation(c)
    THEN [e EXCEPT !.state = "SUBNEG_COMMAND", !.commandBuffer = Append(@, c)]
    ELSE IF c = TN_SE
    THEN LET e1 == [e EXCEPT !.state = "NORMAL"]
             e2 == processTelnetSubnegotiation(e1, e1.subnegBuffer, u)
         IN [e2 EXCEPT !.commandBuffer = <<>>, !.subnegBuffer = <<>>]
    ELSE IF c = TN_SB
    THEN [e EXCEPT !.state = "NORMAL",
                   !.commandBuffer = <<>>,
                   !.subnegBuffer = <<>>]
    ELSE LET e1 == [e EXCEPT !.state = "SUBNEG", !.commandBuffer = Append(@, c)]
             e2 == processTelnetCommand(e1, e1.commandBuffer)
         IN [e2 EXCEPT !.commandBuffer = <<>>]

onReadInternal2(e, c, u) ==
    CASE e.state = "NORMAL" -> stateNormal(e, c)
      [] e.state = "IAC" -> stateIAC(e, c)
      [] e.state = "COMMAND" -> stateCommand(e, c, "NORMAL")
      [] e.state = "SUBNEG" -> stateSubneg(e, c)
      [] e.state = "SUBNEG_IAC" -> stateSubnegIAC(e, c, u)
      [] e.state = "SUBNEG_COMMAND" -> stateCommand(e, c, "SUBNEG")

(***************************************************************************)
(* onReadInternal and onReadInternalInflate, one byte at a time.           *)
(***************************************************************************)
\* a flush on go-ahead that keeps the flushed bytes in the clean buffer
flushGoAhead_NotCleared(e) ==
    IF e.recvdGA
    THEN [sendToMapper(e, e.cleanData, e.recvdGA) EXCEPT !.recvdGA = FALSE]
    ELSE e

\* the flush of the clean buffer on a received go-ahead
flushGoAhead(e) ==
    IF e.recvdGA
    THEN [sendToMapper(e, e.cleanData, e.recvdGA)
            EXCEPT !.cleanData = <<>>, !.recvdGA = FALSE]
    ELSE e

\* one turn of the while loop of onReadInternal outside inflate mode, after
\* the call of onReadInternal2
afterPlainByte(e1) ==
    IF e1.aborted THEN e1
    ELSE IF e1.recvdCompress
    THEN [initCompress(e1) EXCEPT !.recvdCompress = FALSE]
    ELSE flushGoAhead(e1)

readPlainByte(e, c, u) ==
    afterPlainByte(onReadInternal2(e, c, u))

\* a turn of the inflate loop that leaves the go-ahead flush to the end of input
afterInflatedByte_NoFlush(e1) ==
    e1

\* one turn of the for loop of onReadInternalInflate, after the call of
\* onReadInternal2 on a byte the inflater has put out
afterInflatedByte(e1) ==
    IF e1.aborted THEN e1 ELSE flushGoAhead(e1)

readInflatedByte(e, c, u) ==
    afterInflatedByte(onReadInternal2(e, c, u))

\* inflate() returned Z_NEED_DICT, Z_DATA_ERROR, Z_MEM_ERROR or Z_STREAM_END:
\* the exception leaves onReadInternal, whose clean buffer is destroyed
\* The exception is built from stream.msg, which zlib leaves null unless the
\* error is Z_DATA_ERROR; std::runtime_error built from a null pointer is
\* undefined: either some exception leaves onReadInternal all the same, or
\* (crashes) the process ends.
inflateFailed(e, crashes) ==
    IF crashes
    THEN [abort(resetCompress(e)) EXCEPT !.cleanData = <<>>]
    ELSE [resetCompress(e) EXCEPT !.thrown = TRUE, !.cleanData = <<>>]

\* the end of onReadInternal: some data left to send
endOfInput(e) ==
    IF e.cleanData # <<>>
    THEN [sendToMapper(e, e.cleanData, e.recvdGA) EXCEPT !.cleanData = <<>>]
    ELSE e

(***************************************************************************)
(* The state: AbstractTelnet's fields; cleanData and reading, the frame of *)
(* a running onReadInternal call; what the last step did (sent, hooks,     *)
(* dispatched, thrown, aborted).  The remaining variables watch a run and  *)
(* are written by no operation of the engine: given and data (a byte       *)
(* sequence fixed at the start and the part of it not yet read), input     *)
(* and delivered (what has come in so far, bytes or dispatched payloads,   *)
(* and the clean bytes handed to sendToMapper so far), noGA (the same run  *)
(* with go-ahead detection switched off: its engine and its delivered      *)
(* bytes), before (the engine as the reset() of the last step found it),   *)
(* heard and asked (per option, the last WILL/WONT received and the last   *)
(* DO/DONT sent), options (the option codes the inbound negotiation of the *)
(* run names).                                                             *)
(***************************************************************************)
VARIABLES myOptionState, hisOptionState, announcedState, heAnnouncedState,
          termType, state, commandBuffer, subnegBuffer, sentBytes, recvdGA,
          recvdCompress, inflateTelnet, gmcp, textCodec, current,
          m_defaultTermType, debug, NO_ZLIB,
          cleanData, reading, sent, hooks, dispatched, thrown, aborted,
          given, data, input, delivered, noGA, before, heard, asked, options

engineVars ==
    <<myOptionState, hisOptionState, announcedState, heAnnouncedState,
      termType, state, commandBuffer, subnegBuffer, sentBytes, recvdGA,
      recvdCompress, inflateTelnet, gmcp, textCodec, current,
      m_defaultTermType, debug, NO_ZLIB,
      cleanData, reading, sent, hooks, dispatched, thrown, aborted>>

watchVars ==
    <<given, data, input, delivered, noGA, before, heard, asked, options>>

vars ==
    <<engineVars, watchVars>>

\* The engine as the record the operators above work on; the last step's
\* outputs start empty.
Eng ==
    [myOptionState |-> myOptionState, hisOptionState |-> hisOptionState,
     announcedState |-> announcedState, heAnnouncedState |-> heAnnouncedState,
     termType |-> termType, state |-> state, commandBuffer |-> commandBuffer,
     subnegBuffer |-> subnegBuffer, sentBytes |-> sentBytes,
     recvdGA |-> recvdGA, recvdCompress |-> recvdCompress,
     inflateTelnet |-> inflateTelnet, gmcp |-> gmcp, textCodec |-> textCodec,
     current |-> current, m_defaultTermType |-> m_defaultTermType,
     debug |-> debug, NO_ZLIB |-> NO_ZLIB, cleanData |-> cleanData,
     sent |-> <<>>, hooks |-> <<>>, dispatched |-> <<>>, thrown |-> FALSE,
     aborted |-> aborted]

Install(r) ==
    /\ myOptionState' = r.myOptionState
    /\ hisOptionState' = r.hisOptionState
    /\ announcedState' = r.announcedState
    /\ heAnnouncedState' = r.heAnnouncedState
    /\ termType' = r.termType
    /\ state' = r.state
    /\ commandBuffer' = r.commandBuffer
    /\ subnegBuffer' = r.subnegBuffer
    /\ sentBytes' = r.sentBytes
    /\ recvdGA' = r.recvdGA
    /\ recvdCompress' = r.recvdCompress
    /\ inflateTelnet' = r.inflateTelnet
    /\ gmcp' = r.gmcp
    /\ textCodec' = r.textCodec
    /\ current' = r.current
    /\ m_defaultTermType' = r.m_defaultTermType
    /\ debug' = r.debug
    /\ NO_ZLIB' = r.NO_ZLIB
    /\ cleanData' = r.cleanData
    /\ sent' = r.sent
    /\ hooks' = r.hooks
    /\ dispatched' = r.dispatched
    /\ thrown' = r.thrown
    /\ aborted' = r.aborted

GmcpModuleTypes ==
    {"CHAR", "ROOM"}

\* The engine the constructor leaves: the member initialisers, then reset().
Constructed(dbg, noZlib) ==
    reset([myOptionState |-> {}, hisOptionState |-> {}, announcedState |-> {},
           heAnnouncedState |-> {}, termType |-> <<>>, state |-> "NORMAL",
           commandBuffer |-> <<>>, subnegBuffer |-> <<>>, sentBytes |-> 0,
           recvdGA |-> FALSE, recvdCompress |-> FALSE, inflateTelnet |-> FALSE,
           gmcp |-> [supported |-> [t \in GmcpModuleTypes |->
                                       DEFAULT_GMCP_MODULE_VERSION],
                     modules |-> {}],
           textCodec |-> Latin1Name, current |-> <<80, 24>>,
           m_defaultTermType |-> <<88>>, debug |-> dbg, NO_ZLIB |-> noZlib,
           cleanData |-> <<>>, sent |-> <<>>, hooks |-> <<>>,
           dispatched |-> <<>>, thrown |-> FALSE, aborted |-> FALSE])

InitEngine(dbg, noZlib) ==
    LET r == Constructed(dbg, noZlib)
    IN /\ myOptionState = r.myOptionState
       /\ hisOptionState = r.hisOptionState
       /\ announcedState = r.announcedState
       /\ heAnnouncedState = r.heAnnouncedState
       /\ termType = r.termType
       /\ state = r.state
       /\ commandBuffer = r.commandBuffer
       /\ subnegBuffer = r.subnegBuffer
       /\ sentBytes = r.sentBytes
       /\ recvdGA = r.recvdGA
       /\ recvdCompress = r.recvdCompress
       /\ inflateTelnet = r.inflateTelnet
       /\ gmcp = r.gmcp
       /\ textCodec = r.textCodec
       /\ current = r.current
       /\ m_defaultTermType = r.m_defaultTermType
       /\ debug = r.debug
       /\ NO_ZLIB = r.NO_ZLIB
       /\ cleanData = r.cleanData
       /\ reading = FALSE
       /\ sent = r.sent
       /\ hooks = r.hooks
       /\ dispatched = r.dispatched
       /\ thrown = r.thrown
       /\ aborted = r.aborted

(***************************************************************************)
(* The operations.  onReadInternal runs one loop turn per step: the chunk  *)
(* is read left to right and never looked ahead into, so its bytes are     *)
(* drawn as they are read.  A call starts with the first byte read while   *)
(* reading is false (an empty chunk returns at once) and ends with         *)
(* OnReadEnd, or with the exception of InflateFailed.  The host calls the  *)
(* other operations between two onReadInternal calls.                      *)
(***************************************************************************)
OnReadByte(c, u) ==
    /\ ~aborted
    /\ ~inflateTelnet
    /\ Install(readPlainByte(Eng, c, u))
    /\ reading' = TRUE

InflatedByte(c, u) ==
    /\ ~aborted
    /\ inflateTelnet
    /\ Install(readInflatedByte(Eng, c, u))
    /\ reading' = TRUE

InflateFailed(crashes) ==
    /\ ~aborted
    /\ inflateTelnet
    /\ Install(inflateFailed(Eng, crashes))
    /\ reading' = crashes

OnReadEnd ==
    /\ ~aborted
    /\ reading
    /\ Install(endOfInput(Eng))
    /\ reading' = FALSE

Reset ==
    /\ ~aborted
    /\ ~reading
    /\ Install(reset(Eng))
    /\ UNCHANGED reading

SubmitOverTelnet(bytes, goAhead) ==
    /\ ~aborted
    /\ ~reading
    /\ Install(submitOverTelnet(Eng, bytes, goAhead))
    /\ UNCHANGED reading

SendWindowSizeChanged(x, y) ==
    /\ ~aborted
    /\ ~reading
    /\ Install(sendWindowSizeChanged(Eng, x, y))
    /\ UNCHANGED reading

RequestTelnetOption(type, option) ==
    /\ ~aborted
    /\ ~reading
    /\ Install(requestTelnetOption(Eng, type, option))
    /\ UNCHANGED reading

SendGmcpMessage(payload) ==
    /\ ~aborted
    /\ ~reading
    /\ Install(sendGmcpMessage(Eng, payload))
    /\ UNCHANGED reading

ReceiveGmcpModule(module, enabled) ==
    /\ ~aborted
    /\ ~reading
    /\ Install(receiveGmcpModule(Eng, module, enabled))
    /\ UNCHANGED reading

(***************************************************************************)
(* What a run is watched for.                                              *)
(***************************************************************************)
Env ==
    [asserts : BOOLEAN, gmcpParses : BOOLEAN]

\* only the end of a subnegotiation, read in SUBNEG_IAC, looks at them
EnvRead ==
    IF state = "SUBNEG_IAC" THEN Env
    ELSE {[asserts |-> FALSE, gmcpParses |-> FALSE]}

RECURSIVE BoundedSeq(_, _)
\* The sequences over S of length at most n.
BoundedSeq(S, n) ==
    IF n = 0 THEN {<<>>}
    ELSE LET shorter == BoundedSeq(S, n - 1)
         IN shorter \cup {Append(s, x) : s \in {t \in shorter : Len(t) = n - 1},
                                         x \in S}

RECURSIVE FlushedBytes(_)
\* The clean bytes the sendToMapper calls of a hook log hand over, in order.
FlushedBytes(hks) ==
    IF hks = <<>> THEN <<>>
    ELSE IF Head(hks)[1] = "sendToMapper"
         THEN Head(hks)[2] \o FlushedBytes(Tail(hks))
         ELSE FlushedBytes(Tail(hks))

IsFlush(call) ==
    call[1] = "sendToMapper"

(***************************************************************************)
(* SpecRoundTrip: the host submits a payload without go-ahead and the      *)
(* bytes written come back as the next inbound chunk.                      *)
(***************************************************************************)
MaxPayload == 3

RoundTripBytes ==
    {TN_IAC, TN_SE, TN_SB, TN_WILL, TN_GA, 97}

\* the first write of the connection
RoundTripSubmit(S) ==
    /\ data = <<>>
    /\ sentBytes = 0
    /\ SubmitOverTelnet(S, FALSE)
    /\ given' = S
    /\ data' = Flatten(sent')
    /\ input' = <<>>
    /\ delivered' = <<>>
    /\ UNCHANGED <<noGA, before, heard, asked, options>>

RoundTripFeed(u) ==
    /\ data # <<>>
    /\ OnReadByte(Head(data), u)
    /\ data' = Tail(data)
    /\ input' = Append(input, Head(data))
    /\ delivered' = delivered \o FlushedBytes(hooks')
    /\ UNCHANGED <<given, noGA, before, heard, asked, options>>

RoundTripEnd ==
    /\ data = <<>>
    /\ OnReadEnd
    /\ delivered' = delivered \o FlushedBytes(hooks')
    /\ UNCHANGED <<given, data, input, noGA, before, heard, asked, options>>

InitRoundTrip ==
    /\ \E dbg \in BOOLEAN, noZlib \in BOOLEAN : InitEngine(dbg, noZlib)
    /\ given = <<>>
    /\ data = <<>>
    /\ input = <<>>
    /\ delivered = <<>>
    /\ noGA = <<>>
    /\ before = <<>>
    /\ heard = <<>>
    /\ asked = <<>>
    /\ options = {}

NextRoundTrip ==
    \/ \E S \in BoundedSeq(RoundTripBytes, MaxPayload) : RoundTripSubmit(S)
    \/ \E u \in Env : RoundTripFeed(u)
    \/ RoundTripEnd

SpecRoundTrip ==
    InitRoundTrip /\ [][NextRoundTrip]_vars

\* C1: double-IAC round trip.  While the bytes submitOverTelnet(S, false)
\* wrote are read back, nothing is handed to the negotiator or to the
\* subnegotiation dispatcher, nothing is written to the wire and no hook but
\* sendToMapper is called; the clean bytes delivered and still buffered are
\* a prefix of S; and when all are read and the call has returned, the
\* bytes delivered are S and the byte machine is in NORMAL with empty buffers.
C1_RoundTrip ==
    /\ input # <<>> =>
          /\ sent = <<>>
          /\ dispatched = <<>>
          /\ \A i \in 1..Len(hooks) : IsFlush(hooks[i])
          /\ ~thrown /\ ~aborted
    /\ data = <<>> /\ reading => delivered \o cleanData = given
    /\ data = <<>> /\ ~reading =>
          /\ delivered = given
          /\ state = "NORMAL"
          /\ commandBuffer = <<>>
          /\ subnegBuffer = <<>>

\* A payload with an IAC followed by a command byte has made the round trip.
C1_Witness ==
    /\ data = <<>> /\ ~reading /\ input # <<>>
    /\ given = <<97, TN_IAC, TN_GA>>
    /\ delivered = given

(***************************************************************************)
(* SpecGA: an inbound stream with go-aheads, doubled IACs, negotiation and *)
(* the start and the end of compression, read in chunks.  Beside the       *)
(* engine runs noGA, the same engine on the same stream in which the       *)
(* IAC GA command leaves recvdGA alone.                                    *)
(***************************************************************************)
MaxClean == 2
MaxDelivered == 3
MaxSubneg == 2
MaxSentBytes == 6

\* the last step's outputs start empty
Fresh(e) ==
    [e EXCEPT !.sent = <<>>, !.hooks = <<>>, !.dispatched = <<>>,
              !.thrown = FALSE]

ignoreGoAhead(e) ==
    [e EXCEPT !.recvdGA = FALSE]

NoGARun(r) ==
    [e |-> r, delivered |-> noGA.delivered \o FlushedBytes(r.hooks)]

\* the bytes the stream can go on with
GAInputs ==
    CASE state = "NORMAL" -> {TN_IAC, 104}
      [] state = "IAC" -> {TN_IAC, TN_GA, TN_WILL, TN_SB}
      [] state = "COMMAND" -> {OPT_COMPRESS2}
      [] state = "SUBNEG" -> {TN_IAC, OPT_COMPRESS2}
      [] state = "SUBNEG_IAC" -> {TN_SE, TN_GA}
      [] state = "SUBNEG_COMMAND" -> {OPT_COMPRESS2}

GABounded ==
    /\ Len(cleanData') <= MaxClean
    /\ Len(noGA'.e.cleanData) <= MaxClean
    /\ Len(delivered') <= MaxDelivered
    /\ Len(noGA'.delivered) <= MaxDelivered
    /\ Len(subnegBuffer') <= MaxSubneg
    /\ sentBytes' <= MaxSentBytes

GAWatch ==
    /\ delivered' = delivered \o FlushedBytes(hooks')
    /\ UNCHANGED <<given, data, input, before, heard, asked, options>>
    /\ GABounded

GAByte(c, u) ==
    /\ OnReadByte(c, u)
    /\ noGA' = NoGARun(afterPlainByte(
                   ignoreGoAhead(onReadInternal2(Fresh(noGA.e), c, u))))
    /\ GAWatch

GAInflatedByte(c, u) ==
    /\ InflatedByte(c, u)
    /\ noGA' = NoGARun(afterInflatedByte(
                   ignoreGoAhead(onReadInternal2(Fresh(noGA.e), c, u))))
    /\ GAWatch

GAInflateFailed(crashes) ==
    /\ InflateFailed(crashes)
    /\ noGA' = NoGARun(inflateFailed(Fresh(noGA.e), crashes))
    /\ GAWatch

GAEnd ==
    /\ OnReadEnd
    /\ noGA' = NoGARun(endOfInput(Fresh(noGA.e)))
    /\ GAWatch

InitGA ==
    /\ \E dbg \in BOOLEAN, noZlib \in BOOLEAN :
          /\ InitEngine(dbg, noZlib)
          /\ noGA = [e |-> Constructed(dbg, noZlib), delivered |-> <<>>]
    /\ given = <<>>
    /\ data = <<>>
    /\ input = <<>>
    /\ delivered = <<>>
    /\ before = <<>>
    /\ heard = <<>>
    /\ asked = <<>>
    /\ options = {}

NextGA ==
    \/ \E c \in GAInputs, u \in EnvRead : GAByte(c, u)
    \/ \E c \in GAInputs, u \in EnvRead : GAInflatedByte(c, u)
    \/ \E crashes \in BOOLEAN : GAInflateFailed(crashes)
    \/ GAEnd

SpecGA ==
    InitGA /\ [][NextGA]_vars

\* C2: go-ahead is purely a segmentation signal.  Whenever onReadInternal
\* has returned, the clean bytes handed to sendToMapper so far are those
\* the run without go-ahead detection has handed over so far.
C2_GASegmentation ==
    ~reading => delivered = noGA.delivered

\* the step that reads the last byte of an IAC GA command
GoAheadStep ==
    dispatched' = <<<<"command", <<TN_IAC, TN_GA>>>>>>

\* the step in which onReadInternal returns
EndStep ==
    reading /\ ~reading' /\ ~thrown'

\* C3: go-ahead segmentation and ordering.  The step that reads an IAC GA
\* makes exactly one sendToMapper call, marked with go-ahead, that carries
\* the clean buffer as it stood, and leaves the buffer empty, before any
\* later byte is read; no other step flushes with go-ahead; recvdGA is
\* false after every step; the step in which onReadInternal returns makes
\* one sendToMapper call without go-ahead when the clean buffer is not
\* empty and none when it is, and no other step flushes without go-ahead.
C3_GAFlush ==
    [][/\ GoAheadStep =>
             /\ hooks' = <<<<"sendToMapper", cleanData, TRUE>>>>
             /\ cleanData' = <<>>
       /\ EndStep =>
             /\ hooks' = IF cleanData # <<>>
                         THEN <<<<"sendToMapper", cleanData, FALSE>>>>
                         ELSE <<>>
             /\ cleanData' = <<>>
       /\ \A i \in 1..Len(hooks') :
             IsFlush(hooks'[i]) =>
                IF hooks'[i][3] THEN GoAheadStep ELSE EndStep
       /\ recvdGA' = FALSE]_vars

\* A go-ahead has flushed two buffered clean bytes after an earlier flush.
C3_Witness ==
    /\ hooks = <<<<"sendToMapper", <<104, TN_IAC>>, TRUE>>>>
    /\ delivered = <<104, 104, TN_IAC>>
    /\ cleanData = <<>>
    /\ ~recvdGA

(***************************************************************************)
(* SpecReset: negotiation, subnegotiation and compression arrive in        *)
(* chunks, the host requests options, registers GMCP modules and writes,   *)
(* and calls reset() between two chunks.                                   *)
(***************************************************************************)
ResetInputs ==
    CASE state = "NORMAL" -> {TN_IAC, 104}
      [] state = "IAC" -> {TN_WILL, TN_DO, TN_SB}
      [] state = "COMMAND" -> {OPT_ECHO, OPT_COMPRESS2}
      [] state = "SUBNEG" -> {TN_IAC, OPT_COMPRESS2}
      [] state = "SUBNEG_IAC" -> {TN_SE, TN_WILL}
      [] state = "SUBNEG_COMMAND" -> {OPT_ECHO}

ResetModules ==
    {[type |-> "CHAR", version |-> 1, supported |-> TRUE]}

ResetBounded ==
    /\ Len(cleanData') <= MaxClean
    /\ Len(subnegBuffer') <= MaxSubneg
    /\ sentBytes' <= MaxSentBytes

ResetWatch ==
    /\ before' = <<>>
    /\ UNCHANGED <<given, data, input, delivered, noGA, heard, asked, options>>
    /\ ResetBounded

ResetCall ==
    /\ Reset
    /\ before' = Eng
    /\ UNCHANGED <<given, data, input, delivered, noGA, heard, asked, options>>

NextReset ==
    \/ \E c \in ResetInputs, u \in EnvRead : OnReadByte(c, u) /\ ResetWatch
    \/ \E c \in ResetInputs, u \in EnvRead : InflatedByte(c, u) /\ ResetWatch
    \/ \E crashes \in BOOLEAN : InflateFailed(crashes) /\ ResetWatch
    \/ OnReadEnd /\ ResetWatch
    \/ RequestTelnetOption(TN_WILL, OPT_ECHO) /\ ResetWatch
    \/ \E m \in ResetModules : ReceiveGmcpModule(m, TRUE) /\ ResetWatch
    \/ SubmitOverTelnet(<<104>>, FALSE) /\ ResetWatch
    \/ ResetCall

SpecReset ==
    InitRoundTrip /\ [][NextReset]_vars

\* the fields reset() is to bring back to their initial values
ResetFields(r) ==
    <<r.myOptionState, r.hisOptionState, r.announcedState, r.heAnnouncedState,
      r.state, r.commandBuffer, r.subnegBuffer, r.recvdGA, r.recvdCompress,
      r.inflateTelnet, r.gmcp, r.sentBytes>>

AfterReset(r) ==
    /\ r.myOptionState = {} /\ r.hisOptionState = {}
    /\ r.announcedState = {} /\ r.heAnnouncedState = {}
    /\ r.state = "NORMAL"
    /\ r.commandBuffer = <<>> /\ r.subnegBuffer = <<>>
    /\ ~r.recvdGA /\ ~r.recvdCompress /\ ~r.inflateTelnet
    /\ r.gmcp.modules = {}
    /\ \A t \in DOMAIN r.gmcp.supported :
          r.gmcp.supported[t] = DEFAULT_GMCP_MODULE_VERSION
    /\ r.sentBytes = 0
    /\ ResetFields(r) = ResetFields(Constructed(r.debug, r.NO_ZLIB))

\* C4: reset() yields the initial state.  In every state the host can call
\* it in, reset() leaves all four option tables empty, the byte machine in
\* NORMAL, both buffers empty, recvdGA, recvdCompress and inflateTelnet
\* false, no active GMCP module, every supported version at its default
\* and sentBytes 0, as the constructor does; a second reset() changes
\* nothing; and the state after a reset() step is that state.
C4_Reset ==
    /\ AfterReset(reset(Eng))
    /\ reset(reset(Eng)) = reset(Eng)
    /\ before # <<>> => AfterReset(Eng) /\ Fresh(Eng) = Fresh(reset(before))

\* reset() was called in inflate mode with a compression start pending, in
\* the middle of a negotiation command inside a subnegotiation, with
\* options enabled, a GMCP module registered and bytes counted.
C4_Witness ==
    /\ before # <<>>
    /\ before.inflateTelnet /\ before.recvdCompress
    /\ before.state = "SUBNEG_COMMAND"
    /\ before.commandBuffer # <<>> /\ before.subnegBuffer # <<>>
    /\ before.myOptionState # {} /\ before.hisOptionState # {}
    /\ before.gmcp.modules # {}
    /\ before.sentBytes > 0

(***************************************************************************)
(* SpecSubneg: one chunk holds a data byte, IAC SB, a payload with every   *)
(* IAC doubled, IAC SE and a data byte.                                    *)
(***************************************************************************)
MaxSubnegPayload == 3

SubnegBytes ==
    {TN_IAC, TN_SE, TN_SB, OPT_STATUS, TNSB_SEND, OPT_COMPRESS2}

RECURSIVE SubnegPayloads(_)
\* the payloads dispatched by a call log
SubnegPayloads(log) ==
    IF log = <<>> THEN <<>>
    ELSE IF Head(log)[1] = "subneg"
         THEN <<Head(log)[2]>> \o SubnegPayloads(Tail(log))
         ELSE SubnegPayloads(Tail(log))

SubnegChunk(payload) ==
    <<104, TN_IAC, TN_SB>> \o addEscapedBytes(<<>>, payload)
        \o <<TN_IAC, TN_SE, 104>>

SubnegWatch ==
    /\ input' = input \o SubnegPayloads(dispatched')
    /\ delivered' = delivered \o FlushedBytes(hooks')
    /\ UNCHANGED <<given, noGA, before, heard, asked, options>>

SubnegFeed(u) ==
    /\ data # <<>>
    /\ OnReadByte(Head(data), u)
    /\ data' = Tail(data)
    /\ SubnegWatch

SubnegEnd ==
    /\ data = <<>>
    /\ OnReadEnd
    /\ UNCHANGED data
    /\ SubnegWatch

InitSubneg ==
    /\ \E dbg \in BOOLEAN, noZlib \in BOOLEAN : InitEngine(dbg, noZlib)
    /\ given \in BoundedSeq(SubnegBytes, MaxSubnegPayload)
    /\ data = SubnegChunk(given)
    /\ input = <<>>
    /\ delivered = <<>>
    /\ noGA = <<>>
    /\ before = <<>>
    /\ heard = <<>>
    /\ asked = <<>>
    /\ options = {}

NextSubneg ==
    \/ \E u \in Env : SubnegFeed(u)
    \/ SubnegEnd

SpecSubneg ==
    InitSubneg /\ [][NextSubneg]_vars

\* C5: subnegotiation transparency.  For an inbound IAC SB <bytes> IAC SE
\* whose <bytes> are a payload with every IAC doubled, the subnegotiation
\* handler is called once, in the step that reads the closing SE, with the
\* payload in which every pair of IACs is a single IAC again; before that
\* step nothing is dispatched, so no doubled IAC ends the subnegotiation;
\* and the clean bytes are the data bytes outside the subnegotiation only.
C5_SubnegTransparency ==
    /\ input = IF Len(data) <= 1 THEN <<given>> ELSE <<>>
    /\ dispatched # <<>> =>
          dispatched = <<<<"subneg", given>>>> /\ Len(data) = 1
    /\ Len(data) > 1 =>
          delivered \o cleanData =
             IF data = SubnegChunk(given) THEN <<>> ELSE <<104>>
    /\ Len(data) = 1 /\ ~aborted =>
          /\ delivered \o cleanData = <<104>>
          /\ state = "NORMAL" /\ subnegBuffer = <<>> /\ commandBuffer = <<>>
    /\ data = <<>> /\ ~reading => delivered = <<104, 104>>

\* A payload with two IACs and an SE between them has been handed over and
\* the chunk has been read to its end.
C5_Witness ==
    /\ given = <<TN_IAC, TN_SE, TN_IAC>>
    /\ input = <<given>>
    /\ data = <<>> /\ ~reading
    /\ delivered = <<104, 104>>

(***************************************************************************)
(* Commands heard and written.                                             *)
(***************************************************************************)
RECURSIVE LastVerb(_, _, _, _)
\* the verb of the last <<IAC, verb, option>> of units with a verb of verbs
LastVerb(units, verbs, option, old) ==
    IF units = <<>> THEN old
    ELSE LET w == Head(units)
             now == IF Len(w) = 3 /\ w[1] = TN_IAC /\ w[2] \in verbs
                       /\ w[3] = option
                    THEN w[2] ELSE old
         IN LastVerb(Tail(units), verbs, option, now)

\* the commands a call log holds
Commands(log) ==
    [i \in 1..Len(log) |-> IF log[i][1] = "command" THEN log[i][2] ELSE <<>>]

Verbs ==
    {TN_WILL, TN_WONT, TN_DO, TN_DONT}

\* a WILL, WONT, DO or DONT for option is among units
Names(units, option) ==
    \E i \in 1..Len(units), v \in Verbs : units[i] = <<TN_IAC, v, option>>

(***************************************************************************)
(* SpecFrame: the peer's bytes (data, go-aheads, negotiation of two option *)
(* codes, subnegotiations, compression) and the host's calls.              *)
(***************************************************************************)
MaxWritten == 24
MaxBuffered == 1

OptionPairs ==
    {{OPT_ECHO, OPT_NAWS}, {OPT_COMPRESS2, OPT_GMCP}}

FrameInputs ==
    CASE state = "NORMAL" -> {TN_IAC, 104}
      [] state = "IAC" -> {TN_WILL, TN_DO, TN_DONT, TN_SB, TN_GA}
      [] state = "COMMAND" -> options
      [] state = "SUBNEG" -> {TN_IAC} \cup options
      [] state = "SUBNEG_IAC" -> {TN_SE}
      [] state = "SUBNEG_COMMAND" -> options

FrameWatch ==
    /\ before' = <<>>
    /\ UNCHANGED <<given, data, input, delivered, noGA, heard, asked, options>>
    /\ Len(cleanData') <= MaxBuffered
    /\ Len(subnegBuffer') <= MaxBuffered
    /\ sentBytes' <= MaxWritten

FrameReset ==
    /\ Reset
    /\ before' = Eng
    /\ UNCHANGED <<given, data, input, delivered, noGA, heard, asked, options>>

InitFrame ==
    /\ options \in OptionPairs
    /\ \E dbg \in BOOLEAN, noZlib \in BOOLEAN :
          /\ OPT_COMPRESS2 \notin options => ~dbg /\ ~noZlib
          /\ InitEngine(dbg, noZlib)
    /\ heard = <<>>
    /\ asked = <<>>
    /\ given = <<>>
    /\ data = <<>>
    /\ input = <<>>
    /\ delivered = <<>>
    /\ noGA = <<>>
    /\ before = <<>>

NextFrame ==
    \/ \E c \in FrameInputs, u \in EnvRead : OnReadByte(c, u) /\ FrameWatch
    \/ \E c \in FrameInputs, u \in EnvRead : InflatedByte(c, u) /\ FrameWatch
    \/ \E crashes \in BOOLEAN : InflateFailed(crashes) /\ FrameWatch
    \/ OnReadEnd /\ FrameWatch
    \/ \E t \in {TN_WILL, TN_DO}, o \in options :
          RequestTelnetOption(t, o) /\ FrameWatch
    \/ SubmitOverTelnet(<<104>>, TRUE) /\ FrameWatch
    \/ SendWindowSizeChanged(81, 24) /\ FrameWatch
    \/ SendGmcpMessage(<<104>>) /\ FrameWatch
    \/ FrameReset

SpecFrame ==
    InitFrame /\ [][NextFrame]_vars

\* C6: option-table consistency.  In a step that is not reset(), whether
\* option o is in myOptionState changes only if the step handles a
\* received WILL, WONT, DO or DONT for o or writes one for o; so steps
\* that read clean bytes, length-2 commands, subnegotiations or commands
\* about another option, and submitOverTelnet, sendWindowSizeChanged and
\* sendGmcpMessage, leave it as it is.
C6_MyOptionFrame ==
    [][before' = <<>> =>
          \A o \in (myOptionState \ myOptionState')
                      \cup (myOptionState' \ myOptionState) :
             Names(Commands(dispatched'), o) \/ Names(sent', o)]_vars

\* A DO NAWS has switched NAWS on while ECHO, switched on before, stays on.
C6_Witness ==
    /\ dispatched = <<<<"command", <<TN_IAC, TN_DO, OPT_NAWS>>>>>>
    /\ sent[1] = <<TN_IAC, TN_WILL, OPT_NAWS>>
    /\ myOptionState = {OPT_ECHO, OPT_NAWS}

(***************************************************************************)
(* Spec: the negotiation of one option code.  The peer sends data and      *)
(* WILL, WONT, DO and DONT for the code of the run; the host requests the  *)
(* option and resets between two chunks.  heard and asked hold the verb    *)
(* of the last WILL or WONT read and of the last DO or DONT written (0:    *)
(* none on this connection).                                               *)
(***************************************************************************)
\* 25 is a code the negotiator does not support
OptionCodes ==
    {OPT_ECHO, OPT_SUPPRESS_GA, OPT_STATUS, OPT_TIMING_MARK,
     OPT_TERMINAL_TYPE, OPT_NAWS, OPT_CHARSET, OPT_COMPRESS2, OPT_GMCP, 25}

Inputs ==
    CASE state = "NORMAL" -> {TN_IAC, 104}
      [] state = "IAC" -> Verbs
      [] state = "COMMAND" -> options

Watch ==
    /\ heard' = [o \in options |->
                   LastVerb(Commands(dispatched'), {TN_WILL, TN_WONT}, o,
                            heard[o])]
    /\ asked' = [o \in options |->
                   LastVerb(sent', {TN_DO, TN_DONT}, o, asked[o])]
    /\ before' = <<>>
    /\ UNCHANGED <<given, data, input, delivered, noGA, options>>
    /\ Len(cleanData') <= MaxBuffered
    /\ sentBytes' <= MaxWritten

\* reset(): a new connection, on which nothing has been heard or asked
ResetWatched ==
    /\ Reset
    /\ before' = Eng
    /\ heard' = [o \in options |-> 0]
    /\ asked' = [o \in options |-> 0]
    /\ UNCHANGED <<given, data, input, delivered, noGA, options>>

Init ==
    /\ \E o \in OptionCodes : options = {o}
    /\ \E noZlib \in BOOLEAN :
          /\ OPT_COMPRESS2 \notin options => ~noZlib
          /\ InitEngine(FALSE, noZlib)
    /\ heard = [o \in options |-> 0]
    /\ asked = [o \in options |-> 0]
    /\ given = <<>>
    /\ data = <<>>
    /\ input = <<>>
    /\ delivered = <<>>
    /\ noGA = <<>>
    /\ before = <<>>

Next ==
    \/ \E c \in Inputs, u \in EnvRead : OnReadByte(c, u) /\ Watch
    \/ OnReadEnd /\ Watch
    \/ \E t \in {TN_WILL, TN_DO}, o \in options :
          RequestTelnetOption(t, o) /\ Watch
    \/ ResetWatched

Spec ==
    Init /\ [][Next]_vars

\* C7: hisOptionState never diverges from the wire.  In every state, an
\* option in hisOptionState is one for which the last WILL or WONT read
\* was a WILL and the last DO or DONT written was a DO.
C7_HisMatchesWire ==
    \A o \in options :
       o \in hisOptionState => heard[o] = TN_WILL /\ asked[o] = TN_DO

\* the step that reads the last byte of IAC verb o
CommandStep(verb, o) ==
    dispatched' = <<<<"command", <<TN_IAC, verb, o>>>>>>

\* the WILL, WONT, DO and DONT commands among the writes of a step
Replies(units) ==
    SelectSeq(units, LAMBDA w : Len(w) = 3 /\ w[1] = TN_IAC /\ w[2] \in Verbs)

\* C8: WILL handling.  A step that reads IAC WILL o while o is not in
\* hisOptionState writes exactly one negotiation command, whether or not
\* o is in myOptionState: DO o, with o in hisOptionState afterwards (and
\* receiveEchoMode(false) called for ECHO), when o is SUPPRESS_GA, STATUS,
\* TERMINAL_TYPE, NAWS, ECHO, CHARSET, GMCP or, with zlib compiled in,
\* COMPRESS2; DONT o, with o still not in hisOptionState, otherwise.  o is
\* in heAnnouncedState afterwards.  With o in hisOptionState already, the
\* step writes no negotiation command.
C8_WillReply ==
    [][\A o \in options :
          CommandStep(TN_WILL, o) =>
             /\ o \in heAnnouncedState'
             /\ IF o \in hisOptionState
                THEN Replies(sent') = <<>>
                ELSE IF o \in {OPT_SUPPRESS_GA, OPT_STATUS, OPT_TERMINAL_TYPE,
                               OPT_NAWS, OPT_ECHO, OPT_CHARSET, OPT_GMCP}
                        \/ (o = OPT_COMPRESS2 /\ ~NO_ZLIB)
                     THEN /\ Replies(sent') = <<<<TN_IAC, TN_DO, o>>>>
                          /\ o \in hisOptionState'
                          /\ o = OPT_ECHO =>
                                hooks' = <<<<"receiveEchoMode", FALSE>>>>
                     ELSE /\ Replies(sent') = <<<<TN_IAC, TN_DONT, o>>>>
                          /\ o \notin hisOptionState']_vars

\* what switching option o on sets off: the writes and the hook calls
EnableWrites(o) ==
    CASE o = OPT_NAWS ->
            sendWindowSizeChanged(Fresh(Eng), current[1], current[2]).sent
      [] o = OPT_CHARSET ->
            sendCharsetRequest(Fresh(Eng), supportedEncodings).sent
      [] OTHER -> <<>>

EnableHooks(o) ==
    IF o = OPT_GMCP THEN <<<<"onGmcpEnabled">>>> ELSE <<>>

WillOnDo ==
    {OPT_SUPPRESS_GA, OPT_STATUS, OPT_TERMINAL_TYPE, OPT_NAWS, OPT_ECHO,
     OPT_CHARSET, OPT_GMCP}

\* a DO o read while o is not in myOptionState, as C9 has it
DoWhileDisabled(o) ==
    IF o \in WillOnDo
    THEN /\ sent' = <<<<TN_IAC, TN_WILL, o>>>> \o EnableWrites(o)
         /\ hooks' = EnableHooks(o)
         /\ myOptionState' = myOptionState \cup {o}
         /\ announcedState' = announcedState \cup {o}
    ELSE /\ sent' = <<<<TN_IAC, TN_WONT, o>>>>
         /\ hooks' = <<>>
         /\ myOptionState' = myOptionState
         /\ announcedState' = announcedState \cup {o}

\* C9: DO handling.  For o other than TIMING_MARK, a step that reads
\* IAC DO o while o is not in myOptionState writes WILL o and puts o into
\* myOptionState and announcedState when o is SUPPRESS_GA, STATUS,
\* TERMINAL_TYPE, NAWS, ECHO, CHARSET or GMCP, and then runs the enable
\* side effect of o; it writes WONT o and puts o into announcedState only
\* otherwise.  A step that reads IAC DO o while o is in myOptionState
\* writes nothing and calls no hook.
C9_DoOriginal ==
    [][\A o \in options \ {OPT_TIMING_MARK} :
          CommandStep(TN_DO, o) =>
             IF o \notin myOptionState
             THEN DoWhileDisabled(o)
             ELSE sent' = <<>> /\ hooks' = <<>>]_vars

\* C9 as amended: as above while o is not in myOptionState.  A step that
\* reads IAC DO o while o is in myOptionState writes no WILL and no WONT
\* and leaves both tables alone, but runs the enable side effect of o
\* again: the NAWS subnegotiation, the CHARSET REQUEST or onGmcpEnabled.
C9_DoAmended ==
    [][\A o \in options \ {OPT_TIMING_MARK} :
          CommandStep(TN_DO, o) =>
             IF o \notin myOptionState
             THEN DoWhileDisabled(o)
             ELSE /\ sent' = EnableWrites(o)
                  /\ hooks' = EnableHooks(o)
                  /\ myOptionState' = myOptionState
                  /\ announcedState' = announcedState]_vars

\* A DO NAWS read with NAWS switched on by an earlier DO NAWS has written
\* the window size again and nothing else.
C9_Witness ==
    /\ dispatched = <<<<"command", <<TN_IAC, TN_DO, OPT_NAWS>>>>>>
    /\ sent = <<<<TN_IAC, TN_SB, OPT_NAWS, 0, 80, 0, 24, TN_IAC, TN_SE>>>>
    /\ OPT_NAWS \in myOptionState
    /\ sentBytes = 21

\* C10: DO TIMING_MARK is one-shot.  Every step that reads
\* IAC DO TIMING_MARK writes IAC WILL TIMING_MARK and nothing else, calls
\* no hook and leaves the four option tables as they are.
C10_TimingMark ==
    [][CommandStep(TN_DO, OPT_TIMING_MARK) =>
          /\ sent' = <<<<TN_IAC, TN_WILL, OPT_TIMING_MARK>>>>
          /\ hooks' = <<>>
          /\ UNCHANGED <<myOptionState, hisOptionState, announcedState,
                         heAnnouncedState>>]_vars

\* The third of three DO TIMING_MARK in a row has got its WILL.
C10_Witness ==
    /\ dispatched = <<<<"command", <<TN_IAC, TN_DO, OPT_TIMING_MARK>>>>>>
    /\ sent = <<<<TN_IAC, TN_WILL, OPT_TIMING_MARK>>>>
    /\ sentBytes = 9
    /\ myOptionState = {} /\ announcedState = {}
    /\ hisOptionState = {} /\ heAnnouncedState = {}

\* C11: DO COMPRESS2 does nothing.  A step that reads IAC DO COMPRESS2
\* writes nothing and leaves the four option tables, recvdCompress and
\* inflateTelnet as they are.
C11_DoCompressOriginal ==
    [][CommandStep(TN_DO, OPT_COMPRESS2) =>
          /\ sent' = <<>>
          /\ UNCHANGED <<myOptionState, hisOptionState, announcedState,
                         heAnnouncedState, recvdCompress, inflateTelnet>>]_vars

\* C11 as amended: a step that reads IAC DO COMPRESS2 while COMPRESS2 is
\* not in myOptionState refuses it: it writes IAC WONT COMPRESS2 and puts
\* COMPRESS2 into announcedState; with COMPRESS2 in myOptionState it writes
\* nothing and leaves announcedState alone.  Either way it calls no hook
\* and leaves myOptionState, hisOptionState, heAnnouncedState,
\* recvdCompress and inflateTelnet as they are.
C11_DoCompressAmended ==
    [][CommandStep(TN_DO, OPT_COMPRESS2) =>
          /\ IF OPT_COMPRESS2 \notin myOptionState
             THEN /\ sent' = <<<<TN_IAC, TN_WONT, OPT_COMPRESS2>>>>
                  /\ announcedState' = announcedState \cup {OPT_COMPRESS2}
             ELSE /\ sent' = <<>>
                  /\ announcedState' = announcedState
          /\ hooks' = <<>>
          /\ UNCHANGED <<myOptionState, hisOptionState, heAnnouncedState,
                         recvdCompress, inflateTelnet>>]_vars

\* A DO COMPRESS2 has been refused while the peer's COMPRESS2 is on.
C11_Witness ==
    /\ dispatched = <<<<"command", <<TN_IAC, TN_DO, OPT_COMPRESS2>>>>>>
    /\ sent = <<<<TN_IAC, TN_WONT, OPT_COMPRESS2>>>>
    /\ announcedState = {OPT_COMPRESS2}
    /\ myOptionState = {}
    /\ hisOptionState = {OPT_COMPRESS2}

(***************************************************************************)
(* SpecCharset: on a new connection one chunk holds a WILL or a DO for     *)
(* CHARSET and a CHARSET REQUEST subnegotiation with a separator and a     *)
(* list of charset names.                                                  *)
(***************************************************************************)
MaxCharsets == 2

\* 88 is a charset the codec does not know; 59 is ';' and 91 is '['
CharsetNames ==
    {Utf8Name, Latin1Name, <<88>>}

RECURSIVE JoinNames(_, _)
JoinNames(names, sep) ==
    IF names = <<>> THEN <<>>
    ELSE IF Len(names) = 1 THEN Head(names)
    ELSE Head(names) \o <<sep>> \o JoinNames(Tail(names), sep)

CharsetChunk(g) ==
    <<TN_IAC, g.verb, OPT_CHARSET>>
       \o <<TN_IAC, TN_SB, OPT_CHARSET, TNSB_REQUEST, g.sep>>
       \o JoinNames(g.names, g.sep) \o <<TN_IAC, TN_SE>>

CharsetWatch ==
    /\ input' = input \o SubnegPayloads(dispatched')
    /\ UNCHANGED <<given, delivered, noGA, before, heard, asked, options>>

CharsetFeed(u) ==
    /\ data # <<>>
    /\ OnReadByte(Head(data), u)
    /\ data' = Tail(data)
    /\ CharsetWatch

CharsetEnd ==
    /\ data = <<>>
    /\ OnReadEnd
    /\ UNCHANGED data
    /\ CharsetWatch

InitCharset ==
    /\ InitEngine(FALSE, FALSE)
    /\ given \in [verb : {TN_WILL, TN_DO}, sep : {59, 91},
                  names : BoundedSeq(CharsetNames, MaxCharsets)]
    /\ data = CharsetChunk(given)
    /\ input = <<>>
    /\ delivered = <<>>
    /\ noGA = <<>>
    /\ before = <<>>
    /\ heard = <<>>
    /\ asked = <<>>
    /\ options = {}

NextCharset ==
    \/ \E u \in EnvRead : CharsetFeed(u)
    \/ CharsetEnd

SpecCharset ==
    InitCharset /\ [][NextCharset]_vars

RECURSIVE FirstKnown(_)
\* the first of names that is UTF-8 or Latin-1, <<>> if none is
FirstKnown(names) ==
    IF names = <<>> THEN <<>>
    ELSE IF Head(names) \in {Utf8Name, Latin1Name} THEN Head(names)
    ELSE FirstKnown(Tail(names))

\* the reply C12 expects to the request of the run, and the encoding after
CharsetReply(g) ==
    IF g.sep # 91 /\ FirstKnown(g.names) # <<>>
    THEN <<TN_IAC, TN_SB, OPT_CHARSET, TNSB_ACCEPTED>>
            \o FirstKnown(g.names) \o <<TN_IAC, TN_SE>>
    ELSE <<TN_IAC, TN_SB, OPT_CHARSET, TNSB_REJECTED, TN_IAC, TN_SE>>

CharsetAfter(g) ==
    IF g.sep # 91 /\ FirstKnown(g.names) # <<>>
    THEN FirstKnown(g.names) ELSE Latin1Name

\* C12: CHARSET REQUEST accept after the peer's WILL.  On a new connection
\* IAC WILL CHARSET is answered with IAC DO CHARSET, and the step that
\* ends a following IAC SB CHARSET REQUEST <sep> <list> IAC SE writes
\* CHARSET ACCEPTED with the first supported charset of the list and makes
\* it the encoding; it writes CHARSET REJECTED and leaves the encoding
\* when the list has no supported charset, the payload has fewer than 4
\* bytes or the separator is '['.
C12_CharsetRequest ==
    given.verb = TN_WILL =>
       /\ Len(data) + 3 = Len(CharsetChunk(given)) =>
             sent = <<<<TN_IAC, TN_DO, OPT_CHARSET>>>>
       /\ data = <<>> /\ dispatched # <<>> =>
             /\ sent = <<CharsetReply(given)>>
             /\ textCodec = CharsetAfter(given)

\* the same with the engine's own CHARSET switched on by a DO CHARSET
C12_AfterDo ==
    given.verb = TN_DO /\ data = <<>> /\ dispatched # <<>> =>
       /\ sent = <<CharsetReply(given)>>
       /\ textCodec = CharsetAfter(given)

(***************************************************************************)
(* SpecNaws: the peer switches the engine's NAWS on, the host reports a    *)
(* window size, and the bytes the engine wrote are read back by an engine  *)
(* whose NAWS is on.                                                       *)
(***************************************************************************)
\* sizes below, at and above the 16-bit range, with 0xFF in either byte
WindowSizes ==
    {0 - 1, 0, 24, 80, 255, 256, 65280, 65535, 65536, 70000}

NawsWatch ==
    UNCHANGED <<given, input, delivered, noGA, heard, options>>

NawsFeed(u) ==
    /\ data # <<>>
    /\ OnReadByte(Head(data), u)
    /\ data' = Tail(data)
    /\ UNCHANGED <<before, asked>>
    /\ NawsWatch

NawsEnd ==
    /\ data = <<>>
    /\ OnReadEnd
    /\ UNCHANGED <<data, before, asked>>
    /\ NawsWatch

\* the host's call; what it wrote is what is read next
NawsSend ==
    /\ data = <<>>
    /\ asked = <<>>
    /\ OPT_NAWS \in myOptionState
    /\ SendWindowSizeChanged(given[1], given[2])
    /\ before' = Flatten(sent')
    /\ data' = Flatten(sent')
    /\ asked' = <<given>>
    /\ NawsWatch

InitNaws ==
    /\ InitEngine(FALSE, FALSE)
    /\ given \in WindowSizes \X WindowSizes
    /\ data = <<TN_IAC, TN_DO, OPT_NAWS>>
    /\ input = <<>>
    /\ delivered = <<>>
    /\ noGA = <<>>
    /\ before = <<>>
    /\ heard = <<>>
    /\ asked = <<>>
    /\ options = {}

NextNaws ==
    \/ \E u \in EnvRead : NawsFeed(u)
    \/ NawsEnd
    \/ NawsSend

SpecNaws ==
    InitNaws /\ [][NextNaws]_vars

Clamp16(n) ==
    IF n < 0 THEN 0 ELSE IF n > 65535 THEN 65535 ELSE n

Doubled(b) ==
    IF b = 255 THEN <<255, 255>> ELSE <<b>>

NawsFrame(x, y) ==
    <<255, 250, 31>>
       \o Doubled(Clamp16(x) \div 256) \o Doubled(Clamp16(x) % 256)
       \o Doubled(Clamp16(y) \div 256) \o Doubled(Clamp16(y) % 256)
       \o <<255, 240>>

\* C13: NAWS framing.  sendWindowSizeChanged(x, y) writes IAC SB NAWS, the
\* high and low byte of x and of y clamped to 0..65535 with every 0xFF
\* doubled, and IAC SE; (80, 24) gives FF FA 1F 00 50 00 18 FF F0; an
\* engine whose NAWS is on that reads these bytes calls
\* receiveWindowSize(clamped x, clamped y), once.
C13_Naws ==
    asked # <<>> =>
       /\ before = NawsFrame(given[1], given[2])
       /\ given = <<80, 24>> => before = <<255, 250, 31, 0, 80, 0, 24, 255, 240>>
       /\ data = before => sent = <<before>>
       /\ data = <<>> /\ dispatched # <<>> =>
             /\ Len(dispatched) = 1
             /\ hooks = <<<<"receiveWindowSize",
                            Clamp16(given[1]), Clamp16(given[2])>>>>
             /\ sent = <<>>

C13_Witness ==
    /\ given = <<70000, 255>>
    /\ before = <<255, 250, 31, 255, 255, 255, 255, 0, 255, 255, 255, 240>>
    /\ data = <<>>
    /\ hooks = <<<<"receiveWindowSize", 65535, 255>>>>

(***************************************************************************)
(* SpecSubmit: the peer negotiates SUPPRESS_GA and sends data, the host    *)
(* submits payloads with and without a go-ahead.                           *)
(***************************************************************************)
MaxSubmit == 2
MaxSubmitted == 12

SubmitBytes ==
    {104, TN_IAC, TN_GA}

SubmitInputs ==
    CASE state = "NORMAL" -> {TN_IAC, 104}
      [] state = "IAC" -> Verbs
      [] state = "COMMAND" -> {OPT_SUPPRESS_GA}

SubmitBounded ==
    /\ Len(cleanData') <= MaxBuffered
    /\ sentBytes' <= MaxSubmitted
    /\ UNCHANGED <<data, input, delivered, noGA, before, heard, asked, options>>

\* given is the arguments of the step's submitOverTelnet call, if it was one
SubmitCall(bytes, goAhead) ==
    /\ SubmitOverTelnet(bytes, goAhead)
    /\ given' = <<bytes, goAhead>>
    /\ SubmitBounded

SubmitRead(c, u) ==
    /\ OnReadByte(c, u)
    /\ given' = <<>>
    /\ SubmitBounded

SubmitReadEnd ==
    /\ OnReadEnd
    /\ given' = <<>>
    /\ SubmitBounded

SubmitReset ==
    /\ Reset
    /\ given' = <<>>
    /\ SubmitBounded

InitSubmit ==
    /\ InitEngine(FALSE, FALSE)
    /\ given = <<>>
    /\ data = <<>>
    /\ input = <<>>
    /\ delivered = <<>>
    /\ noGA = <<>>
    /\ before = <<>>
    /\ heard = <<>>
    /\ asked = <<>>
    /\ options = {}

NextSubmit ==
    \/ \E c \in SubmitInputs, u \in EnvRead : SubmitRead(c, u)
    \/ SubmitReadEnd
    \/ \E bytes \in BoundedSeq(SubmitBytes, MaxSubmit), goAhead \in BOOLEAN :
          SubmitCall(bytes, goAhead)
    \/ SubmitReset

SpecSubmit ==
    InitSubmit /\ [][NextSubmit]_vars

RECURSIVE DoubledAll(_)
DoubledAll(bytes) ==
    IF bytes = <<>> THEN <<>>
    ELSE Doubled(Head(bytes)) \o DoubledAll(Tail(bytes))

\* C14: go-ahead suppression.  A submitOverTelnet call writes the payload
\* with every 0xFF doubled, followed by IAC GA exactly when goAhead is
\* true and SUPPRESS_GA is not in hisOptionState; a WILL SUPPRESS_GA that
\* is answered with DO puts SUPPRESS_GA in hisOptionState, and while it
\* is there a submit writes the doubled payload only.
C14_SubmitGoAhead ==
    [][/\ given' # <<>> =>
             sent' = <<DoubledAll(given'[1])
                         \o IF given'[2] /\ OPT_SUPPRESS_GA \notin hisOptionState
                            THEN <<TN_IAC, TN_GA>> ELSE <<>>>>
       /\ CommandStep(TN_WILL, OPT_SUPPRESS_GA)
             /\ sent' = <<<<TN_IAC, TN_DO, OPT_SUPPRESS_GA>>>>
          => OPT_SUPPRESS_GA \in hisOptionState'
       /\ given' # <<>> /\ OPT_SUPPRESS_GA \in hisOptionState =>
             sent' = <<DoubledAll(given'[1])>>]_vars

C14_Witness ==
    /\ given = <<<<TN_IAC, TN_GA>>, TRUE>>
    /\ OPT_SUPPRESS_GA \in hisOptionState
    /\ sent = <<<<TN_IAC, TN_IAC, TN_GA>>>>

(***************************************************************************)
(* SpecStatus: on a new connection one chunk holds up to MaxCommands       *)
(* WILLs and DOs of the peer and then IAC SB STATUS SEND IAC SE.           *)
(***************************************************************************)
MaxCommands == 3

StatusOptions ==
    {OPT_ECHO, OPT_STATUS, OPT_NAWS}

StatusCommands ==
    {<<TN_IAC, v, o>> : v \in {TN_WILL, TN_DO}, o \in StatusOptions}

StatusChunk(commands) ==
    Flatten(commands) \o <<TN_IAC, TN_SB, OPT_STATUS, TNSB_SEND, TN_IAC, TN_SE>>

StatusWatch ==
    UNCHANGED <<given, input, delivered, noGA, before, heard, asked, options>>

StatusFeed(u) ==
    /\ data # <<>>
    /\ OnReadByte(Head(data), u)
    /\ data' = Tail(data)
    /\ StatusWatch

StatusEnd ==
    /\ data = <<>>
    /\ OnReadEnd
    /\ UNCHANGED data
    /\ StatusWatch

InitStatus ==
    /\ InitEngine(FALSE, FALSE)
    /\ given \in BoundedSeq(StatusCommands, MaxCommands)
    /\ data = StatusChunk(given)
    /\ input = <<>>
    /\ delivered = <<>>
    /\ noGA = <<>>
    /\ before = <<>>
    /\ heard = <<>>
    /\ asked = <<>>
    /\ options = {}

NextStatus ==
    \/ \E u \in EnvRead : StatusFeed(u)
    \/ StatusEnd

SpecStatus ==
    InitStatus /\ [][NextStatus]_vars

\* the state after the step that handled the STATUS SEND of the run
StatusSendHandled ==
    /\ data = <<>>
    /\ dispatched = <<<<"subneg", <<OPT_STATUS, TNSB_SEND>>>>>>

\* w is IAC SB STATUS IS, <verb> <option> pairs, IAC SE
IsStatusReply(w) ==
    /\ Len(w) >= 6
    /\ Len(w) % 2 = 0
    /\ SubSeq(w, 1, 4) = <<TN_IAC, TN_SB, OPT_STATUS, TNSB_IS>>
    /\ SubSeq(w, Len(w) - 1, Len(w)) = <<TN_IAC, TN_SE>>

\* the <verb> <option> pairs of a reply
StatusPairs(w) ==
    [k \in 1..((Len(w) - 6) \div 2) |-> <<w[3 + 2 * k], w[4 + 2 * k]>>]

\* the pairs list the options of the two tables, each once, and no other
ListsEnabled(pairs) ==
    /\ Len(pairs) = Cardinality(myOptionState) + Cardinality(hisOptionState)
    /\ {pairs[k] : k \in 1..Len(pairs)}
          = {<<TN_WILL, o>> : o \in myOptionState}
               \cup {<<TN_DO, o>> : o \in hisOptionState}

\* C15 as claimed: the reply to STATUS SEND, negotiated or not, is IAC SB
\* STATUS IS, the WILLs of myOptionState, then the DOs of hisOptionState,
\* then IAC SE, and lists exactly the enabled options.
C15_StatusOriginal ==
    StatusSendHandled =>
       /\ Len(sent) = 1
       /\ IsStatusReply(sent[1])
       /\ ListsEnabled(StatusPairs(sent[1]))
       /\ \A j, k \in 1..Len(StatusPairs(sent[1])) :
             j < k => ~(StatusPairs(sent[1])[j][1] = TN_DO
                        /\ StatusPairs(sent[1])[k][1] = TN_WILL)

\* C15 amended: the reply to STATUS SEND, negotiated or not, is IAC SB
\* STATUS IS, then for each option in ascending order WILL o if it is in
\* myOptionState followed by DO o if it is in hisOptionState, then IAC SE,
\* and lists exactly the enabled options.
C15_StatusAmended ==
    StatusSendHandled =>
       /\ Len(sent) = 1
       /\ IsStatusReply(sent[1])
       /\ ListsEnabled(StatusPairs(sent[1]))
       /\ \A j, k \in 1..Len(StatusPairs(sent[1])) :
             j < k =>
                \/ StatusPairs(sent[1])[j][2] < StatusPairs(sent[1])[k][2]
                \/ /\ StatusPairs(sent[1])[j][2] = StatusPairs(sent[1])[k][2]
                   /\ StatusPairs(sent[1])[j][1] = TN_WILL
                   /\ StatusPairs(sent[1])[k][1] = TN_DO

C15_Witness ==
    /\ StatusSendHandled
    /\ myOptionState = {OPT_NAWS}
    /\ hisOptionState = {OPT_ECHO, OPT_NAWS}
    /\ sent = <<<<TN_IAC, TN_SB, OPT_STATUS, TNSB_IS, TN_DO, OPT_ECHO,
                  TN_WILL, OPT_NAWS, TN_DO, OPT_NAWS, TN_IAC, TN_SE>>>>

(***************************************************************************)
(* SpecWritten: a script of up to MaxEvents events on a new connection;    *)
(* an event is a chunk of the peer (a negotiation or a subnegotiation that *)
(* makes the engine write one) or a call of the host that writes.          *)
(***************************************************************************)
MaxEvents == 3

PeerEvent(bytes) ==
    [kind |-> "peer", bytes |-> bytes, x |-> 0, y |-> 0]

WrittenEvents ==
    {PeerEvent(<<TN_IAC, v, o>>) :
        v \in {TN_DO}, o \in {OPT_NAWS, OPT_TERMINAL_TYPE, OPT_CHARSET}}
    \cup {PeerEvent(<<TN_IAC, TN_WILL, OPT_TERMINAL_TYPE>>),
          PeerEvent(<<TN_IAC, TN_SB, OPT_TERMINAL_TYPE, TNSB_SEND, TN_IAC, TN_SE>>),
          PeerEvent(<<TN_IAC, TN_SB, OPT_CHARSET, TNSB_REQUEST, 59>>
                       \o Utf8Name \o <<TN_IAC, TN_SE>>),
          PeerEvent(<<TN_IAC, TN_SB, OPT_CHARSET, TNSB_REQUEST, 59, 88,
                      TN_IAC, TN_SE>>),
          PeerEvent(<<TN_IAC, TN_SB, OPT_STATUS, TNSB_SEND, TN_IAC, TN_SE>>),
          [kind |-> "naws", bytes |-> <<>>, x |-> 255, y |-> 65535],
          [kind |-> "gmcp", bytes |-> <<TN_IAC, 104>>, x |-> 0, y |-> 0],
          [kind |-> "request", bytes |-> <<>>, x |-> TN_WILL, y |-> 255]}

WrittenWatch ==
    UNCHANGED <<given, delivered, noGA, before, heard, asked, options>>

WrittenIdle ==
    /\ data = <<>>
    /\ ~reading
    /\ input # <<>>
    /\ input' = Tail(input)

\* the first byte of the next chunk of the peer
WrittenPeer(u) ==
    /\ WrittenIdle
    /\ Head(input).kind = "peer"
    /\ OnReadByte(Head(Head(input).bytes), u)
    /\ data' = Tail(Head(input).bytes)
    /\ WrittenWatch

WrittenFeed(u) ==
    /\ data # <<>>
    /\ OnReadByte(Head(data), u)
    /\ data' = Tail(data)
    /\ UNCHANGED input
    /\ WrittenWatch

WrittenEnd ==
    /\ data = <<>>
    /\ OnReadEnd
    /\ UNCHANGED <<data, input>>
    /\ WrittenWatch

WrittenNaws ==
    /\ WrittenIdle
    /\ Head(input).kind = "naws"
    /\ SendWindowSizeChanged(Head(input).x, Head(input).y)
    /\ UNCHANGED data
    /\ WrittenWatch

WrittenGmcp ==
    /\ WrittenIdle
    /\ Head(input).kind = "gmcp"
    /\ SendGmcpMessage(Head(input).bytes)
    /\ UNCHANGED data
    /\ WrittenWatch

WrittenRequest ==
    /\ WrittenIdle
    /\ Head(input).kind = "request"
    /\ RequestTelnetOption(Head(input).x, Head(input).y)
    /\ UNCHANGED data
    /\ WrittenWatch

InitWritten ==
    /\ InitEngine(FALSE, FALSE)
    /\ given \in BoundedSeq(WrittenEvents, MaxEvents)
    /\ input = given
    /\ data = <<>>
    /\ delivered = <<>>
    /\ noGA = <<>>
    /\ before = <<>>
    /\ heard = <<>>
    /\ asked = <<>>
    /\ options = {}

NextWritten ==
    \/ \E u \in EnvRead : WrittenPeer(u)
    \/ \E u \in EnvRead : WrittenFeed(u)
    \/ WrittenEnd
    \/ WrittenNaws
    \/ WrittenGmcp
    \/ WrittenRequest

SpecWritten ==
    InitWritten /\ [][NextWritten]_vars

RECURSIVE Paired(_)
\* every 0xFF of s is one of a pair
Paired(s) ==
    IF s = <<>> THEN TRUE
    ELSE IF Head(s) # 255 THEN Paired(Tail(s))
    ELSE Len(s) >= 2 /\ s[2] = 255 /\ Paired(Tail(Tail(s)))

\* w is IAC SB <opt>, parameters with every 0xFF doubled, IAC SE
WellFormed(w) ==
    /\ Len(w) >= 5
    /\ SubSeq(w, 1, 2) = <<255, 250>>
    /\ SubSeq(w, Len(w) - 1, Len(w)) = <<255, 240>>
    /\ Paired(SubSeq(w, 4, Len(w) - 2))

\* C16: every subnegotiation the engine writes is well-formed: between
\* its IAC SB <opt> and its final IAC SE every parameter byte 0xFF is
\* doubled, so that the peer decodes one subnegotiation from it.
C16_WellFormed ==
    \A i \in 1..Len(sent) :
       Len(sent[i]) >= 2 /\ SubSeq(sent[i], 1, 2) = <<255, 250>> =>
          WellFormed(sent[i])

\* the same of every subnegotiation but STATUS IS
C16_FormatterWellFormed ==
    \A i \in 1..Len(sent) :
       /\ Len(sent[i]) >= 3
       /\ SubSeq(sent[i], 1, 2) = <<255, 250>>
       /\ sent[i][3] # OPT_STATUS
       => WellFormed(sent[i])

(***************************************************************************)
(* SpecCompress: the peer negotiates COMPRESS2 and ECHO, sends data and    *)
(* COMPRESS2 subnegotiations; in inflate mode the inflater puts bytes out  *)
(* or fails.  input is the kind of the last step.                          *)
(***************************************************************************)
MaxCompressSent == 9

CompressInputs ==
    CASE state = "NORMAL" -> {TN_IAC, 104}
      [] state = "IAC" -> {TN_WILL, TN_WONT, TN_SB}
      [] state = "COMMAND" -> {OPT_COMPRESS2, OPT_ECHO}
      [] state = "SUBNEG" -> {TN_IAC, OPT_COMPRESS2}
      [] state = "SUBNEG_IAC" -> {TN_SE}
      [] state = "SUBNEG_COMMAND" -> {OPT_COMPRESS2}

CompressWatch ==
    /\ before' = Eng
    /\ UNCHANGED <<given, data, delivered, noGA, heard, asked, options>>
    /\ Len(cleanData') <= MaxClean
    /\ Len(subnegBuffer') <= MaxSubneg
    /\ sentBytes' <= MaxCompressSent

CompressByte(c, u) ==
    /\ OnReadByte(c, u)
    /\ input' = "plain"
    /\ CompressWatch

CompressInflatedByte(c, u) ==
    /\ InflatedByte(c, u)
    /\ input' = "inflated"
    /\ CompressWatch

CompressInflateFailed(crashes) ==
    /\ InflateFailed(crashes)
    /\ input' = "failed"
    /\ CompressWatch

CompressEnd ==
    /\ OnReadEnd
    /\ input' = "end"
    /\ CompressWatch

InitCompress ==
    /\ \E dbg \in BOOLEAN, noZlib \in BOOLEAN : InitEngine(dbg, noZlib)
    /\ input = "none"
    /\ before = <<>>
    /\ given = <<>>
    /\ data = <<>>
    /\ delivered = <<>>
    /\ noGA = <<>>
    /\ heard = <<>>
    /\ asked = <<>>
    /\ options = {}

NextCompress ==
    \/ \E c \in CompressInputs, u \in EnvRead : CompressByte(c, u)
    \/ \E c \in CompressInputs, u \in EnvRead : CompressInflatedByte(c, u)
    \/ \E crashes \in BOOLEAN : CompressInflateFailed(crashes)
    \/ CompressEnd

SpecCompress ==
    InitCompress /\ [][NextCompress]_vars

\* the step that reads the IAC SE of a subnegotiation of COMPRESS2
CompressSubnegStep ==
    /\ Len(dispatched') = 1
    /\ dispatched'[1][1] = "subneg"
    /\ Len(dispatched'[1][2]) >= 1
    /\ dispatched'[1][2][1] = OPT_COMPRESS2

CompressionStartStep ==
    /\ CompressSubnegStep /\ ~inflateTelnet /\ OPT_COMPRESS2 \in hisOptionState
       => /\ input' = "plain"
          /\ inflateTelnet'
          /\ ~recvdCompress'
    /\ inflateTelnet => input' # "plain"
    /\ CompressSubnegStep /\ OPT_COMPRESS2 \notin hisOptionState
       => /\ ~aborted'
          /\ sent' = <<>>
          /\ hooks' = <<>>
          /\ UNCHANGED <<myOptionState, hisOptionState, announcedState,
                         heAnnouncedState, recvdCompress, inflateTelnet,
                         recvdGA, cleanData,
                         sentBytes, gmcp, textCodec, termType>>
    /\ ~inflateTelnet /\ inflateTelnet'
       => CompressSubnegStep /\ OPT_COMPRESS2 \in hisOptionState

\* C17: compression start point.  The step that reads the IAC SE of a
\* COMPRESS2 subnegotiation while COMPRESS2 is in hisOptionState is a
\* plain step and leaves the engine in inflate mode; from then on no byte
\* reaches the byte machine but through the inflater; when COMPRESS2 is
\* not in hisOptionState the subnegotiation changes nothing, and inflate
\* mode is entered in no other way.
C17_CompressionStart ==
    [][CompressionStartStep]_vars

\* the same in a build with zlib
C17_WithZlib ==
    [][~NO_ZLIB => CompressionStartStep]_vars


\* C18: compression end.  The step in which the inflater reports
\* Z_NEED_DICT, Z_DATA_ERROR, Z_MEM_ERROR or Z_STREAM_END leaves the
\* engine out of inflate mode, with COMPRESS2 out of hisOptionState and
\* no compression start pending, throws the error to the host, and leaves
\* myOptionState, the announced tables and the rest of hisOptionState.
C18_CompressionEnd ==
    [][input' = "failed" =>
          /\ inflateTelnet
          /\ ~inflateTelnet'
          /\ ~recvdCompress'
          /\ thrown'
          /\ hisOptionState' = hisOptionState \ {OPT_COMPRESS2}
          /\ UNCHANGED <<myOptionState, announcedState, heAnnouncedState>>]_vars

\* the same but for the report to the host
C18_FlagsAndTables ==
    [][input' = "failed" =>
          /\ inflateTelnet
          /\ ~inflateTelnet'
          /\ ~recvdCompress'
          /\ thrown' \/ aborted'
          /\ hisOptionState' = hisOptionState \ {OPT_COMPRESS2}
          /\ UNCHANGED <<myOptionState, announcedState, heAnnouncedState>>]_vars


\* C19: a zlib failure loses no data.  The step in which the inflater
\* fails hands the clean bytes buffered so far in the onReadInternal call
\* to sendToMapper, also when the failure is thrown as an exception.
C19_NoDataLost ==
    [][input' = "failed" /\ thrown' => FlushedBytes(hooks') = cleanData]_vars


\* the step delivers a subnegotiation of CHARSET whose second byte is
\* TTABLE_IS
TtableDelivered ==
    \E i \in 1..Len(dispatched') :
        /\ dispatched'[i][1] = "subneg"
        /\ Len(dispatched'[i][2]) >= 2
        /\ dispatched'[i][2][1] = OPT_CHARSET
        /\ dispatched'[i][2][2] = TNSB_TTABLE_IS

\* C22: only TTABLE_IS is fatal.  A step of onReadInternal aborts the
\* process or throws out of the engine only when it delivers a
\* subnegotiation of CHARSET whose second byte is TTABLE_IS.
C22_OnlyTtableFatal ==
    [][aborted' \/ thrown' => TtableDelivered]_vars

\* the same without the aborts: no step throws out of onReadInternal
C22_NothingThrown ==
    [][~thrown']_vars

(***************************************************************************)
(* SpecAnomaly: the peer's bytes with IAC SE outside and IAC SB inside a   *)
(* subnegotiation, among data, commands and STATUS subnegotiations.        *)
(* input is the byte of the last step, before the engine as it found it.   *)
(***************************************************************************)
MaxAnomalySent == 12

AnomalyInputs ==
    CASE state = "NORMAL" -> {TN_IAC, 104}
      [] state = "IAC" -> {TN_IAC, TN_SE, TN_SB, TN_WILL, TN_GA}
      [] state = "COMMAND" -> {OPT_ECHO}
      [] state = "SUBNEG" -> {TN_IAC, OPT_STATUS, TNSB_SEND}
      [] state = "SUBNEG_IAC" -> {TN_IAC, TN_SE, TN_SB, TN_WILL, TN_GA}
      [] state = "SUBNEG_COMMAND" -> {OPT_ECHO}

AnomalyWatch ==
    /\ before' = Eng
    /\ UNCHANGED <<given, data, delivered, noGA, heard, asked, options>>
    /\ Len(cleanData') <= MaxClean
    /\ Len(subnegBuffer') <= MaxSubneg
    /\ sentBytes' <= MaxAnomalySent

AnomalyByte(c, u) ==
    /\ OnReadByte(c, u)
    /\ input' = <<c>>
    /\ AnomalyWatch

AnomalyEnd ==
    /\ OnReadEnd
    /\ input' = <<>>
    /\ AnomalyWatch

InitAnomaly ==
    /\ InitEngine(FALSE, FALSE)
    /\ input = <<>>
    /\ before = <<>>
    /\ given = <<>>
    /\ data = <<>>
    /\ delivered = <<>>
    /\ noGA = <<>>
    /\ heard = <<>>
    /\ asked = <<>>
    /\ options = {}

NextAnomaly ==
    \/ \E c \in AnomalyInputs, u \in EnvRead : AnomalyByte(c, u)
    \/ AnomalyEnd

SpecAnomaly ==
    InitAnomaly /\ [][NextAnomaly]_vars

\* the step that reads the SE of a stray IAC SE, or the SB of an IAC SB
\* inside a subnegotiation
AnomalyStep ==
    \/ state = "IAC" /\ input' = <<TN_SE>>
    \/ state = "SUBNEG_IAC" /\ input' = <<TN_SB>>

\* C20: protocol anomalies recover to a safe state.  The step that ends a
\* stray IAC SE or an IAC SB inside a subnegotiation leaves the byte
\* machine in NORMAL with both buffers empty, as on a new connection,
\* calls no command or subnegotiation handler and no hook, writes
\* nothing, adds nothing to the clean buffer and changes no option table;
\* the IAC before it added nothing to the clean buffer either.
C20_Anomalies ==
    [][AnomalyStep =>
          /\ state' = "NORMAL"
          /\ commandBuffer' = <<>>
          /\ subnegBuffer' = <<>>
          /\ <<state', commandBuffer', subnegBuffer'>>
                = <<Constructed(debug, NO_ZLIB).state,
                    Constructed(debug, NO_ZLIB).commandBuffer,
                    Constructed(debug, NO_ZLIB).subnegBuffer>>
          /\ dispatched' = <<>>
          /\ hooks' = <<>>
          /\ sent' = <<>>
          /\ ~aborted'
          /\ commandBuffer = <<TN_IAC>>
          /\ UNCHANGED <<cleanData, myOptionState, hisOptionState,
                         announcedState, heAnnouncedState, recvdGA,
                         recvdCompress, inflateTelnet, sentBytes>>]_vars

\* An IAC SB has cut off a subnegotiation that held STATUS SEND, with a
\* clean byte buffered.
C20_Witness ==
    /\ input = <<TN_SB>>
    /\ before # <<>>
    /\ before.state = "SUBNEG_IAC"
    /\ before.subnegBuffer = <<OPT_STATUS, TNSB_SEND>>
    /\ cleanData = <<104>>
    /\ state = "NORMAL"
    /\ subnegBuffer = <<>>

(***************************************************************************)
(* SpecEmbedded: one chunk holds IAC SB p1 <command> p2 IAC SE, with the   *)
(* 0xFF of p1 and p2 doubled; given is p1, the command and p2.             *)
(***************************************************************************)
MaxEmbedded == 2

EmbeddedCommands ==
    {<<TN_IAC, TN_GA>>, <<TN_IAC, TN_AYT>>, <<TN_IAC, TN_NOP>>}
    \cup {<<TN_IAC, v, OPT_ECHO>> : v \in Verbs}

\* IAC SB IAC WILL ECHO f o o IAC IAC b a r IAC SE
EmbeddedExample ==
    [p1 |-> <<>>, cmd |-> <<TN_IAC, TN_WILL, OPT_ECHO>>,
     p2 |-> <<102, 111, 111, 255, 98, 97, 114>>]

EmbeddedRuns ==
    [p1 : BoundedSeq({104, TN_IAC}, MaxEmbedded), cmd : EmbeddedCommands,
     p2 : BoundedSeq({104, TN_IAC}, MaxEmbedded)]
    \cup {EmbeddedExample}

EmbeddedChunk(g) ==
    <<TN_IAC, TN_SB>> \o addEscapedBytes(<<>>, g.p1) \o g.cmd
       \o addEscapedBytes(<<>>, g.p2) \o <<TN_IAC, TN_SE>>

EmbeddedWatch ==
    UNCHANGED <<given, input, delivered, noGA, before, heard, asked, options>>

EmbeddedFeed(u) ==
    /\ data # <<>>
    /\ OnReadByte(Head(data), u)
    /\ data' = Tail(data)
    /\ EmbeddedWatch

EmbeddedEnd ==
    /\ data = <<>>
    /\ OnReadEnd
    /\ UNCHANGED data
    /\ EmbeddedWatch

InitEmbedded ==
    /\ \E dbg \in BOOLEAN : InitEngine(dbg, FALSE)
    /\ given \in EmbeddedRuns
    /\ data = EmbeddedChunk(given)
    /\ input = <<>>
    /\ delivered = <<>>
    /\ noGA = <<>>
    /\ before = <<>>
    /\ heard = <<>>
    /\ asked = <<>>
    /\ options = {}

NextEmbedded ==
    \/ \E u \in EnvRead : EmbeddedFeed(u)
    \/ EmbeddedEnd

SpecEmbedded ==
    InitEmbedded /\ [][NextEmbedded]_vars

\* the bytes of the chunk after the embedded command
AfterCommand(g) ==
    Len(DoubledAll(g.p2)) + 2

\* C21: commands embedded in a subnegotiation.  For the chunk IAC SB p1
\* <command> p2 IAC SE the command is given to processTelnetCommand by the
\* step that reads its last byte, which leaves the byte machine in SUBNEG
\* with p1 in the subnegotiation buffer; the step that reads the final SE
\* gives p1 followed by p2 to processTelnetSubnegotiation; no other step
\* of the run calls either.
C21_EmbeddedCommand ==
    /\ Len(data) = AfterCommand(given) =>
          /\ dispatched = <<<<"command", given.cmd>>>>
          /\ state = "SUBNEG"
          /\ subnegBuffer = given.p1
    /\ data = <<>> /\ reading /\ ~aborted =>
          /\ dispatched = <<<<"subneg", given.p1 \o given.p2>>>>
          /\ state = "NORMAL"
    /\ Len(data) # AfterCommand(given) /\ data # <<>> => dispatched = <<>>

C21_Witness ==
    /\ given = EmbeddedExample
    /\ data = <<>>
    /\ dispatched = <<<<"subneg", <<102, 111, 111, 255, 98, 97, 114>>>>>>
    /\ hisOptionState = {OPT_ECHO}


(***************************************************************************)
(* SpecGmcp: the host registers and removes GMCP modules, with and without *)
(* a version, while the peer switches our GMCP option on and off.          *)
(* input is the kind of the last step, asked the module and the flag of    *)
(* the receiveGmcpModule call of the last step.                            *)
(***************************************************************************)
MaxGmcpSent == 9

GmcpModules ==
    [type : GmcpModuleTypes, version : {0, 1}, supported : BOOLEAN]

GmcpInputs ==
    CASE state = "NORMAL" -> {TN_IAC}
      [] state = "IAC" -> {TN_DO, TN_DONT}
      [] state = "COMMAND" -> {OPT_GMCP}
      [] OTHER -> {}

GmcpWatch ==
    /\ UNCHANGED <<given, data, delivered, noGA, before, heard, options>>
    /\ sentBytes' <= MaxGmcpSent

GmcpByte(c, u) ==
    /\ OnReadByte(c, u)
    /\ input' = "byte"
    /\ asked' = <<>>
    /\ GmcpWatch

GmcpEnd ==
    /\ OnReadEnd
    /\ input' = "end"
    /\ asked' = <<>>
    /\ GmcpWatch

GmcpRegister(module, enabled) ==
    /\ ReceiveGmcpModule(module, enabled)
    /\ input' = "module"
    /\ asked' = <<module, enabled>>
    /\ GmcpWatch

InitGmcp ==
    /\ \E dbg \in BOOLEAN : InitEngine(dbg, FALSE)
    /\ input = "none"
    /\ before = <<>>
    /\ given = <<>>
    /\ data = <<>>
    /\ delivered = <<>>
    /\ noGA = <<>>
    /\ heard = <<>>
    /\ asked = <<>>
    /\ options = {}

NextGmcp ==
    \/ \E c \in GmcpInputs, u \in EnvRead : GmcpByte(c, u)
    \/ GmcpEnd
    \/ \E m \in GmcpModules, enabled \in BOOLEAN : GmcpRegister(m, enabled)

SpecGmcp ==
    InitGmcp /\ [][NextGmcp]_vars

\* C23: GMCP module registration.  receiveGmcpModule(module, true) with a
\* module that has no version throws "missing version" and leaves the set
\* of active modules and the table of supported versions as they were;
\* with a version it throws nothing and the module is in the active set
\* afterwards.  isGmcpModuleEnabled(type) is true only when GMCP is in
\* myOptionState and the supported version of that type is not the default.
C23_GmcpModule ==
    [][/\ input' = "module" /\ asked'[2] =>
             IF asked'[1].version = 0
             THEN thrown' /\ gmcp' = gmcp
             ELSE ~thrown' /\ asked'[1] \in gmcp'.modules
       /\ \A t \in GmcpModuleTypes :
             isGmcpModuleEnabled(Eng, t)' =>
                /\ OPT_GMCP \in myOptionState'
                /\ gmcp'.supported[t] # DEFAULT_GMCP_MODULE_VERSION]_vars

\* "missing version" is reported with a versioned module of another type
\* active and enabled, and that module is still enabled
C23_Witness ==
    /\ input = "module"
    /\ thrown
    /\ asked[1].type = "ROOM"
    /\ gmcp.modules = {[type |-> "CHAR", version |-> 1, supported |-> TRUE]}
    /\ isGmcpModuleEnabled(Eng, "CHAR")
    /\ ~isGmcpModuleEnabled(Eng, "ROOM")


(***************************************************************************)
(* SpecCodec: the peer negotiates CHARSET and sends CHARSET REQUEST and    *)
(* ACCEPTED subnegotiations, split into chunks anywhere, and between two   *)
(* chunks the host reads the codec with some configured encoding.          *)
(* heard is the encoding adopted by the last CHARSET negotiation (<<>>: by *)
(* none since the last WILL, WONT, DO, DONT or other subnegotiation of     *)
(* CHARSET), asked the configured encoding of the last getTextCodec call.  *)
(***************************************************************************)
MaxCodecEvents == 3

\* getConfig().general.characterEncoding is the host's; it is an argument here
getTextCodec(e, configEncoding) ==
    IF OPT_CHARSET \notin e.hisOptionState
    THEN IF configEncoding # e.textCodec
         THEN [e EXCEPT !.textCodec = configEncoding]
         ELSE e
    ELSE e

GetTextCodec(configEncoding) ==
    /\ ~aborted
    /\ ~reading
    /\ Install(getTextCodec(Eng, configEncoding))
    /\ UNCHANGED reading

CodecEvents ==
    {<<TN_IAC, TN_WILL, OPT_CHARSET>>, <<TN_IAC, TN_DO, OPT_CHARSET>>,
     <<TN_IAC, TN_WONT, OPT_CHARSET>>,
     <<TN_IAC, TN_SB, OPT_CHARSET, TNSB_REQUEST, 59>> \o Utf8Name
         \o <<TN_IAC, TN_SE>>,
     <<TN_IAC, TN_SB, OPT_CHARSET, TNSB_ACCEPTED>> \o Utf8Name
         \o <<TN_IAC, TN_SE>>}

ConfigEncodings ==
    {Utf8Name, Latin1Name}

\* the encoding the step adopts: the one of the ACCEPTED it writes, or the
\* one of the ACCEPTED it is given
AcceptedSent(log) ==
    {Mid(SubSeq(log[i], 1, Len(log[i]) - 2), 4) : i \in
        {j \in 1..Len(log) :
            /\ Len(log[j]) > 6
            /\ SubSeq(log[j], 1, 4) =
                  <<TN_IAC, TN_SB, OPT_CHARSET, TNSB_ACCEPTED>>}}

AcceptedReceived(log) ==
    {Mid(log[i][2], 2) : i \in
        {j \in 1..Len(log) :
            /\ log[j][1] = "subneg"
            /\ Len(log[j][2]) > 3
            /\ log[j][2][1] = OPT_CHARSET
            /\ log[j][2][2] = TNSB_ACCEPTED
            /\ supports(Mid(log[j][2], 2))
            /\ OPT_CHARSET \in myOptionState}}

Adopted ==
    AcceptedSent(sent') \cup AcceptedReceived(dispatched')

CodecWatch ==
    /\ heard' = IF Adopted # {} THEN CHOOSE n \in Adopted : TRUE
                ELSE IF dispatched' # <<>> THEN <<>>
                ELSE heard
    /\ UNCHANGED <<given, delivered, noGA, before, asked, options>>

CodecFeed(u) ==
    /\ data # <<>>
    /\ OnReadByte(Head(data), u)
    /\ data' = Tail(data)
    /\ input' = "byte"
    /\ CodecWatch

CodecEnd ==
    /\ OnReadEnd
    /\ input' = "end"
    /\ UNCHANGED data
    /\ CodecWatch

CodecRead(configEncoding) ==
    /\ GetTextCodec(configEncoding)
    /\ input' = "codec"
    /\ asked' = configEncoding
    /\ UNCHANGED <<given, data, delivered, noGA, before, heard, options>>

InitCodec ==
    /\ InitEngine(FALSE, FALSE)
    /\ given \in BoundedSeq(CodecEvents, MaxCodecEvents)
    /\ data = Flatten(given)
    /\ input = "none"
    /\ delivered = <<>>
    /\ noGA = <<>>
    /\ before = <<>>
    /\ heard = <<>>
    /\ asked = <<>>
    /\ options = {}

NextCodec ==
    \/ \E u \in EnvRead : CodecFeed(u)
    \/ CodecEnd
    \/ \E configEncoding \in ConfigEncodings : CodecRead(configEncoding)

SpecCodec ==
    InitCodec /\ [][NextCodec]_vars

\* C24: a negotiated encoding is kept.  After a CHARSET REQUEST answered
\* with ACCEPTED, or a received CHARSET ACCEPTED <charset>, and until the
\* next CHARSET negotiation, getTextCodec() leaves the adopted encoding
\* whatever the configured encoding is; it replaces the encoding by the
\* configured one only when CHARSET is not in hisOptionState.
C24_AdoptedStays ==
    [][input' = "codec" =>
          /\ heard # <<>> => textCodec' = heard
          /\ textCodec' # textCodec =>
                /\ OPT_CHARSET \notin hisOptionState
                /\ textCodec' = asked']_vars

\* the same for the encodings adopted while CHARSET is in hisOptionState
C24_AdoptedStaysWithHis ==
    [][input' = "codec" =>
          /\ heard # <<>> /\ OPT_CHARSET \in hisOptionState =>
                textCodec' = heard
          /\ textCodec' # textCodec =>
                /\ OPT_CHARSET \notin hisOptionState
                /\ textCodec' = asked']_vars


(***************************************************************************)
(* SpecInflate: after IAC WILL COMPRESS2 and IAC SB COMPRESS2 IAC SE the   *)
(* inflater puts out data, go-aheads, negotiation and STATUS               *)
(* subnegotiations, but no subnegotiation of COMPRESS2.  before is a       *)
(* second engine, equal to the first at the compression start but not in   *)
(* inflate mode, that reads the same bytes in the plain loop.              *)
(***************************************************************************)
MaxInflateSent == 12

CompressionPrefix ==
    <<TN_IAC, TN_WILL, OPT_COMPRESS2, TN_IAC, TN_SB, OPT_COMPRESS2, TN_IAC, TN_SE>>

InflateInputs ==
    CASE state = "NORMAL" -> {TN_IAC, 104}
      [] state = "IAC" -> {TN_GA, TN_WILL, TN_WONT, TN_DO, TN_SB}
      [] state = "COMMAND" -> {OPT_ECHO, OPT_COMPRESS2}
      [] state = "SUBNEG" -> {TN_IAC, OPT_STATUS, TNSB_SEND}
      [] state = "SUBNEG_IAC" -> {TN_SE, TN_WILL}
      [] state = "SUBNEG_COMMAND" -> {OPT_ECHO}

\* the engine with what its last step did
EngLog ==
    [Eng EXCEPT !.sent = sent, !.hooks = hooks, !.dispatched = dispatched,
                !.thrown = thrown]

ClearLog(r) ==
    [r EXCEPT !.sent = <<>>, !.hooks = <<>>, !.dispatched = <<>>,
              !.thrown = FALSE]

InflateWatch ==
    /\ UNCHANGED <<given, input, delivered, noGA, heard, asked, options>>
    /\ Len(cleanData') <= MaxClean
    /\ Len(subnegBuffer') <= MaxSubneg
    /\ sentBytes' <= MaxInflateSent

InflatePrefix(u) ==
    /\ data # <<>>
    /\ OnReadByte(Head(data), u)
    /\ data' = Tail(data)
    /\ before' = IF inflateTelnet'
                 THEN [EngLog' EXCEPT !.inflateTelnet = FALSE]
                 ELSE <<>>
    /\ InflateWatch

InflateByte(c, u) ==
    /\ before # <<>>
    /\ InflatedByte(c, u)
    /\ before' = readPlainByte(ClearLog(before), c, u)
    /\ UNCHANGED data
    /\ InflateWatch

InflateEnd ==
    /\ before # <<>>
    /\ inflateTelnet
    /\ OnReadEnd
    /\ before' = endOfInput(ClearLog(before))
    /\ UNCHANGED data
    /\ InflateWatch

InitInflate ==
    /\ \E dbg \in BOOLEAN : InitEngine(dbg, FALSE)
    /\ given = CompressionPrefix
    /\ data = given
    /\ input = "none"
    /\ before = <<>>
    /\ delivered = <<>>
    /\ noGA = <<>>
    /\ heard = <<>>
    /\ asked = <<>>
    /\ options = {}

NextInflate ==
    \/ \E u \in EnvRead : InflatePrefix(u)
    \/ \E c \in InflateInputs, u \in EnvRead : InflateByte(c, u)
    \/ InflateEnd

SpecInflate ==
    InitInflate /\ [][NextInflate]_vars

MaxChunkUnits == 3

ChunkUnits ==
    {<<104>>, <<TN_IAC, TN_GA>>, <<TN_IAC, TN_WILL, OPT_ECHO>>,
     <<TN_IAC, TN_SB, OPT_STATUS, TNSB_SEND, TN_IAC, TN_SE>>}

ChunkStreams ==
    [compressed : {FALSE}, units : BoundedSeq(ChunkUnits, MaxChunkUnits),
     fails : {FALSE}]
       \cup [compressed : {TRUE}, units : BoundedSeq(ChunkUnits, MaxChunkUnits),
             fails : BOOLEAN]

ChunkBytes(g) ==
    (IF g.compressed THEN CompressionPrefix ELSE <<>>) \o Flatten(g.units)

NoRun ==
    [wire |-> <<>>, calls |-> <<>>, clean |-> <<>>, goAheads |-> <<>>]

IsOtherCall(call) ==
    call[1] # "sendToMapper"

\* a run after the step that left the engine r
Ran(a, r) ==
    LET clean == a.clean \o FlushedBytes(r.hooks)
    IN [wire |-> a.wire \o Flatten(r.sent),
        calls |-> a.calls \o SelectSeq(r.hooks, IsOtherCall),
        clean |-> clean,
        goAheads |-> IF \E i \in 1..Len(r.hooks) :
                           IsFlush(r.hooks[i]) /\ r.hooks[i][3]
                     THEN Append(a.goAheads, Len(clean))
                     ELSE a.goAheads]

ChunkWatch ==
    /\ heard' = Ran(heard, EngLog')
    /\ UNCHANGED <<given, delivered, noGA, options>>

\* the second engine reads c in its one call
ChunkOther(r) ==
    /\ before' = r
    /\ asked' = Ran(asked, r)

ChunkFeed(u) ==
    /\ data # <<>>
    /\ ~inflateTelnet
    /\ OnReadByte(Head(data), u)
    /\ ChunkOther(readPlainByte(ClearLog(before), Head(data), u))
    /\ data' = Tail(data)
    /\ input' = "byte"
    /\ ChunkWatch

ChunkInflated(u) ==
    /\ data # <<>>
    /\ inflateTelnet
    /\ InflatedByte(Head(data), u)
    /\ ChunkOther(readInflatedByte(ClearLog(before), Head(data), u))
    /\ data' = Tail(data)
    /\ input' = "byte"
    /\ ChunkWatch

\* the chunk ends here and the next one starts with the next byte
ChunkSplit ==
    /\ data # <<>>
    /\ OnReadEnd
    /\ UNCHANGED <<data, before, asked>>
    /\ input' = "split"
    /\ ChunkWatch

ChunkFailed(crashes) ==
    /\ data = <<>>
    /\ given.fails
    /\ input # "done"
    /\ InflateFailed(crashes)
    /\ ChunkOther(inflateFailed(ClearLog(before), crashes))
    /\ UNCHANGED data
    /\ input' = "done"
    /\ ChunkWatch

ChunkEnd ==
    /\ data = <<>>
    /\ ~given.fails
    /\ OnReadEnd
    /\ ChunkOther(endOfInput(ClearLog(before)))
    /\ UNCHANGED data
    /\ input' = "done"
    /\ ChunkWatch

InitChunk ==
    /\ \E dbg \in BOOLEAN : InitEngine(dbg, FALSE)
    /\ given \in ChunkStreams
    /\ data = ChunkBytes(given)
    /\ data # <<>>
    /\ before = EngLog
    /\ heard = NoRun
    /\ asked = NoRun
    /\ input = "none"
    /\ delivered = <<>>
    /\ noGA = <<>>
    /\ options = {}

NextChunk ==
    \/ \E u \in EnvRead : ChunkFeed(u)
    \/ \E u \in EnvRead : ChunkInflated(u)
    \/ ChunkSplit
    \/ \E crashes \in BOOLEAN : ChunkFailed(crashes)
    \/ ChunkEnd

SpecChunk ==
    InitChunk /\ [][NextChunk]_vars

SameRuns ==
    /\ heard = asked
    /\ ClearLog(EngLog) = ClearLog(before)

\* C26: chunking invariance.  However the stream is split into
\* onReadInternal calls, the bytes written, the hook calls other than
\* sendToMapper, the concatenation of the clean bytes handed to
\* sendToMapper, the places in them of the flushes with goAhead, and the
\* engine at the end are those of one onReadInternal call on the whole
\* stream.
C26_ChunkingInvariance ==
    input = "done" => SameRuns

\* the same for the streams that do not end in a zlib failure
C26_WithoutFailure ==
    input = "done" /\ ~given.fails => SameRuns


(***************************************************************************)
(* The byte machine's buffers, under SpecReset.                            *)
(***************************************************************************)
\* C27: the buffers between two bytes.  commandBuffer is empty in NORMAL
\* and SUBNEG, is IAC alone in IAC and SUBNEG_IAC, and is IAC followed by
\* WILL, WONT, DO or DONT in COMMAND and SUBNEG_COMMAND; subnegBuffer is
\* empty in NORMAL, IAC and COMMAND.
C27_Buffers ==
    ~aborted =>
       /\ state \in {"NORMAL", "SUBNEG"} => commandBuffer = <<>>
       /\ state \in {"IAC", "SUBNEG_IAC"} => commandBuffer = <<TN_IAC>>
       /\ state \in {"COMMAND", "SUBNEG_COMMAND"} =>
             /\ Len(commandBuffer) = 2
             /\ commandBuffer[1] = TN_IAC
             /\ commandBuffer[2] \in {TN_WILL, TN_WONT, TN_DO, TN_DONT}
       /\ state \in {"NORMAL", "IAC", "COMMAND"} => subnegBuffer = <<>>

\* a command was processed in NORMAL and another is half read inside a
\* subnegotiation with payload
C27_Witness ==
    /\ state = "SUBNEG_COMMAND"
    /\ commandBuffer = <<TN_IAC, TN_WILL>>
    /\ subnegBuffer # <<>>
    /\ OPT_ECHO \in hisOptionState


(***************************************************************************)
(* The reads of the subnegotiation dispatcher, under SpecAnomaly.          *)
(***************************************************************************)
\* processTelnetSubnegotiation reads payload[0] always, and payload[1] in
\* the handlers of STATUS, TERMINAL_TYPE and CHARSET
ReadsPastPayload(e, payload) ==
    \/ Len(payload) = 0
    \/ Len(payload) = 1 /\ readsSecondByte(e, payload[1])

\* C28: the dispatcher never reads past the payload.  Whenever a step hands
\* a payload to processTelnetSubnegotiation, payload[0] is read only if the
\* payload has a byte and payload[1] only if it has two; IAC SB IAC SE and
\* IAC SB <option> IAC SE are dropped without a read out of range.
C28_NoReadPastPayload ==
    [][\A i \in 1..Len(dispatched') :
          dispatched'[i][1] = "subneg" =>
             ~ReadsPastPayload(Eng, dispatched'[i][2])]_vars

\* the same for the payloads of two bytes and more
C28_LongPayloads ==
    [][\A i \in 1..Len(dispatched') :
          dispatched'[i][1] = "subneg" /\ Len(dispatched'[i][2]) >= 2 =>
             ~ReadsPastPayload(Eng, dispatched'[i][2]) /\ ~aborted']_vars


(***************************************************************************)
(* Inflate mode and the negotiation of COMPRESS2, under SpecCompress.      *)
(***************************************************************************)
\* C29: inflate mode implies negotiated compression.  In every state with
\* inflateTelnet set COMPRESS2 is in hisOptionState and no compression
\* start is pending (recvdCompress is false), with debug on and off.
C29_InflateNegotiated ==
    inflateTelnet => OPT_COMPRESS2 \in hisOptionState /\ ~recvdCompress

\* with debug on no compression start is pending in inflate mode
C29_PendingWithoutDebug ==
    inflateTelnet /\ recvdCompress => ~debug


(***************************************************************************)
(* SpecQuiesce: two engines back to back.  The variables of the engine are *)
(* the first one, before is the second; data are the bytes on the wire to  *)
(* the first, asked the bytes on the wire to the second, input whether the *)
(* single command was sent.  Each engine is given what the other wrote,    *)
(* one write per onReadInternal call, in order.                            *)
(***************************************************************************)
MaxQuiesceSent == 40

QuiesceOptions ==
    {OPT_ECHO, OPT_SUPPRESS_GA, OPT_STATUS, OPT_TIMING_MARK,
     OPT_TERMINAL_TYPE, OPT_NAWS, OPT_CHARSET, OPT_COMPRESS2, OPT_GMCP}

RECURSIVE onReadInternal(_, _, _)
\* onReadInternal on a whole chunk, outside inflate mode
onReadInternal(e, chunk, u) ==
    IF e.aborted \/ e.inflateTelnet THEN e
    ELSE IF chunk = <<>> THEN endOfInput(e)
    ELSE onReadInternal(readPlainByte(e, Head(chunk), u), Tail(chunk), u)

Quiet ==
    data = <<>> /\ asked = <<>>

QuiesceWatch ==
    /\ UNCHANGED <<given, delivered, noGA, heard, options, reading>>
    /\ sentBytes' <= MaxQuiesceSent
    /\ before'.sentBytes <= MaxQuiesceSent

\* the first engine writes one command, from the host's request or not
QuiesceSend(type, option, requested) ==
    /\ input = "none"
    /\ ~aborted
    /\ Install(IF requested THEN requestTelnetOption(Eng, type, option)
               ELSE sendTelnetOption(Eng, type, option))
    /\ asked' = sent'
    /\ input' = "sent"
    /\ UNCHANGED <<data, before>>
    /\ QuiesceWatch

QuiesceRead(u) ==
    /\ data # <<>>
    /\ ~aborted
    /\ Install(onReadInternal(Eng, Head(data), u))
    /\ data' = Tail(data)
    /\ asked' = asked \o sent'
    /\ UNCHANGED <<before, input>>
    /\ QuiesceWatch

QuiesceReadOther(u) ==
    /\ asked # <<>>
    /\ ~before.aborted
    /\ before' = onReadInternal(ClearLog(before), Head(asked), u)
    /\ asked' = Tail(asked)
    /\ data' = data \o before'.sent
    /\ UNCHANGED <<engineVars, input>>
    /\ QuiesceWatch

InitQuiesce ==
    /\ \E dbg \in BOOLEAN : InitEngine(dbg, FALSE)
    /\ before = EngLog
    /\ data = <<>>
    /\ asked = <<>>
    /\ input = "none"
    /\ given = <<>>
    /\ delivered = <<>>
    /\ noGA = <<>>
    /\ heard = <<>>
    /\ options = {}

QuiesceReads ==
    \/ \E u \in Env : QuiesceRead(u)
    \/ \E u \in Env : QuiesceReadOther(u)

NextQuiesce ==
    \/ \E type \in Verbs, option \in QuiesceOptions, requested \in BOOLEAN :
          QuiesceSend(type, option, requested)
    \/ \E u \in Env : QuiesceRead(u)
    \/ \E u \in Env : QuiesceReadOther(u)

\* a read step is possible: ENABLED <<QuiesceReads>>_vars, spelled out
CanRead ==
    \/ /\ data # <<>>
       /\ ~aborted
       /\ \E u \in Env :
             onReadInternal(Eng, Head(data), u).sentBytes <= MaxQuiesceSent
    \/ /\ asked # <<>>
       /\ ~before.aborted
       /\ \E u \in Env :
             onReadInternal(ClearLog(before), Head(asked), u).sentBytes
                <= MaxQuiesceSent

\* what is on the wire is read: the sockets deliver what was written.  The
\* last conjunct is WF_vars(QuiesceReads).
SpecQuiesce ==
    /\ InitQuiesce
    /\ [][NextQuiesce]_vars
    /\ ([]<>~CanRead \/ []<><<QuiesceReads>>_vars)

\* whenever something is on the wire it can be read
C30_NeverBlocked ==
    ~Quiet => CanRead

\* C30: negotiation quiesces.  After a single WILL, WONT, DO or DONT written
\* by one of two engines back to back, the two exchange finitely many
\* commands and subnegotiations: from some point on nothing is on the wire
\* in either direction.
C30_Quiesces ==
    <>[]Quiet

\* the wire is quiet again after the command, with an option agreed in
\* both engines and a subnegotiation sent
C30_Witness ==
    /\ Quiet
    /\ input = "sent"
    /\ OPT_NAWS \in hisOptionState
    /\ OPT_NAWS \in before.myOptionState
    /\ before.sentBytes > 3


(***************************************************************************)
(* SpecPeer: a new engine, with and without zlib, is given only inbound    *)
(* bytes: WILL, WONT, DO and DONT, in any order and any chunking, for the  *)
(* two option codes of given; the host requests nothing.                   *)
(***************************************************************************)
MaxPeerSent == 18

\* 99 is an option code the engine has no name for
PeerOptions ==
    {OPT_ECHO, OPT_SUPPRESS_GA, OPT_STATUS, OPT_TIMING_MARK,
     OPT_TERMINAL_TYPE, OPT_NAWS, OPT_CHARSET, OPT_COMPRESS2, OPT_GMCP, 99}

PeerInputs ==
    CASE state = "NORMAL" -> {TN_IAC}
      [] state = "IAC" -> Verbs
      [] state = "COMMAND" -> given
      [] OTHER -> {}

PeerWatch ==
    /\ UNCHANGED <<given, data, input, delivered, noGA, before, heard, asked,
                   options>>
    /\ sentBytes' <= MaxPeerSent

PeerByte(c, u) ==
    /\ OnReadByte(c, u)
    /\ PeerWatch

PeerEnd ==
    /\ OnReadEnd
    /\ PeerWatch

InitPeer ==
    /\ \E dbg \in BOOLEAN, noZlib \in BOOLEAN : InitEngine(dbg, noZlib)
    /\ given \in {s \in SUBSET PeerOptions : Cardinality(s) = 2}
    /\ data = <<>>
    /\ input = "none"
    /\ delivered = <<>>
    /\ noGA = <<>>
    /\ before = <<>>
    /\ heard = <<>>
    /\ asked = <<>>
    /\ options = {}

NextPeer ==
    \/ \E c \in PeerInputs, u \in EnvRead : PeerByte(c, u)
    \/ PeerEnd

SpecPeer ==
    InitPeer /\ [][NextPeer]_vars

\* C31: only supported options are enabled by the peer.  Whatever the peer
\* sends to a new engine, myOptionState holds only ECHO, SUPPRESS_GA,
\* STATUS, TERMINAL_TYPE, NAWS, CHARSET and GMCP, and hisOptionState only
\* these and COMPRESS2: TIMING_MARK and COMPRESS2 are never in
\* myOptionState and an option code without a name is in neither.
C31_OnlySupported ==
    /\ myOptionState \subseteq
          {OPT_ECHO, OPT_SUPPRESS_GA, OPT_STATUS, OPT_TERMINAL_TYPE, OPT_NAWS,
           OPT_CHARSET, OPT_GMCP}
    /\ hisOptionState \subseteq
          {OPT_ECHO, OPT_SUPPRESS_GA, OPT_STATUS, OPT_TERMINAL_TYPE, OPT_NAWS,
           OPT_CHARSET, OPT_GMCP, OPT_COMPRESS2}

\* DO TIMING_MARK was just answered with WILL and left myOptionState empty,
\* after WILL COMPRESS2 was accepted
C31_Witness ==
    /\ sent = <<<<TN_IAC, TN_WILL, OPT_TIMING_MARK>>>>
    /\ myOptionState = {}
    /\ hisOptionState = {OPT_COMPRESS2}


(***************************************************************************)
(* SpecOrder: the peer sends data, go-aheads, WILL, WONT, DO and DONT for  *)
(* ECHO and GMCP, and GMCP subnegotiations, in chunks that end anywhere;   *)
(* the host calls nothing.                                                 *)
(***************************************************************************)
MaxOrderSent == 12

OrderOptions ==
    {OPT_ECHO, OPT_GMCP}

OrderInputs ==
    CASE state = "NORMAL" -> {TN_IAC, 104}
      [] state = "IAC" -> {TN_WILL, TN_WONT, TN_DO, TN_DONT, TN_GA, TN_SB}
      [] state = "COMMAND" -> OrderOptions
      [] state = "SUBNEG" -> {TN_IAC, OPT_GMCP, 104}
      [] state = "SUBNEG_IAC" -> {TN_SE}
      [] OTHER -> {}

OrderWatch ==
    /\ UNCHANGED <<given, data, input, delivered, noGA, before, heard, asked,
                   options>>
    /\ Len(cleanData') <= MaxClean
    /\ Len(subnegBuffer') <= MaxSubneg
    /\ sentBytes' <= MaxOrderSent

OrderByte(c, u) ==
    /\ OnReadByte(c, u)
    /\ OrderWatch

OrderEnd ==
    /\ OnReadEnd
    /\ OrderWatch

InitOrder ==
    /\ \E dbg \in BOOLEAN : InitEngine(dbg, FALSE)
    /\ given = <<>>
    /\ data = <<>>
    /\ input = "none"
    /\ delivered = <<>>
    /\ noGA = <<>>
    /\ before = <<>>
    /\ heard = <<>>
    /\ asked = <<>>
    /\ options = {}

NextOrder ==
    \/ \E c \in OrderInputs, u \in EnvRead : OrderByte(c, u)
    \/ OrderEnd

SpecOrder ==
    InitOrder /\ [][NextOrder]_vars

\* the calls of receiveEchoMode, receiveTerminalType, receiveWindowSize,
\* receiveGmcpMessage and onGmcpEnabled of a step
ProtocolHooks(log) ==
    SelectSeq(log, IsOtherCall)

Written(log, w) ==
    \E i \in 1..Len(log) : log[i] = w

\* a change of an option table is announced in the step that makes it, and
\* nothing is written in a step that reads no command or subnegotiation
RepliesInStep ==
    /\ \A o \in OrderOptions :
          /\ o \in hisOptionState' \ hisOptionState =>
                Written(sent', <<TN_IAC, TN_DO, o>>)
          /\ o \in hisOptionState \ hisOptionState' =>
                Written(sent', <<TN_IAC, TN_DONT, o>>)
          /\ o \in myOptionState' \ myOptionState =>
                Written(sent', <<TN_IAC, TN_WILL, o>>)
          /\ o \in myOptionState \ myOptionState' =>
                Written(sent', <<TN_IAC, TN_WONT, o>>)
    /\ sent' # <<>> => dispatched' # <<>>

\* C32 as stated: host events keep stream order.  A step calls
\* receiveEchoMode, receiveTerminalType, receiveWindowSize,
\* receiveGmcpMessage or onGmcpEnabled only when every clean byte read
\* before it has been handed to sendToMapper, and every negotiation reply
\* is written in the step that reads the command.
C32_StreamOrder ==
    [][/\ ProtocolHooks(hooks') # <<>> => cleanData = <<>>
       /\ RepliesInStep]_vars

\* C32: host events and replies.  receiveEchoMode, receiveTerminalType,
\* receiveWindowSize, receiveGmcpMessage and onGmcpEnabled are called in
\* the step that reads the last byte of the command or subnegotiation,
\* which leaves the clean bytes buffered in the running onReadInternal call
\* in the buffer and hands none to sendToMapper; every negotiation reply is
\* written in the step that reads the command.
C32_EventsInStep ==
    [][/\ ProtocolHooks(hooks') # <<>> =>
             /\ dispatched' # <<>>
             /\ cleanData' = cleanData
             /\ FlushedBytes(hooks') = <<>>
             /\ hooks' = ProtocolHooks(hooks')
       /\ RepliesInStep]_vars

\* receiveEchoMode was called and DO ECHO written with a clean byte read
\* before the WILL still in the buffer
C32_Witness ==
    /\ hooks = <<<<"receiveEchoMode", FALSE>>>>
    /\ sent = <<<<TN_IAC, TN_DO, OPT_ECHO>>>>
    /\ cleanData = <<104>>
    /\ reading

====
